---- MODULE Spec2Model ----
(***************************************************************************)
(* Model of the finite state machine dispatcher of src/src/fsm/fsm.c and   *)
(* src/include/fsm.h, with the events of src/include/event.h and the       *)
(* run-time assertion of src/include/asserter.h.                           *)
(*                                                                         *)
(* One Fsm object is modelled.  Every call of a State Handler is one step  *)
(* of the model: the handler's reaction is chosen nondeterministically     *)
(* among everything a handler written with FSM_TRAN() can do, and the      *)
(* step then runs the dispatcher's code up to the next handler call, to    *)
(* the return of the function, or to My_Assert_Handler().                  *)
(*                                                                         *)
(* The module also models the pool of static ring buffers of               *)
(* src/src/ring-buffer/ring_buffer_static.c (one step per call of its API, *)
(* and one step per statement of Write and Read where two contexts share a *)
(* buffer), the dynamic ring buffer of ir_ring_buffer_dynamic.c and the    *)
(* byte swaps of src/include/byte_swap.h.                                  *)
(***************************************************************************)
EXTENDS Integers, Sequences, FiniteSets, TLC

\* Largest value of max_state_transitions (as left in memory, or as passed
\* to Fsm_Ctor) that the model explores.
MaxTransitions == 2

\* ------------------------------------------------------------------------
\* event.h
\* ------------------------------------------------------------------------
INIT_EVENT == -4
ENTRY_EVENT == -3
EXIT_EVENT == -2
IDLE_EVENT == -1
USER_SIG == 0

\* A second Signal of the application, above USER_SIG.
APP_SIG == USER_SIG + 5

Reserved_Signals == {INIT_EVENT, ENTRY_EVENT, EXIT_EVENT, IDLE_EVENT}

\* The Signals the application hands to Fsm_Dispatch in this model.
DispatchSignals == Reserved_Signals \cup {USER_SIG, APP_SIG}

\* fsm.c: the Events the dispatcher sends by itself.
Entry_Event == [sig |-> ENTRY_EVENT]
Exit_Event == [sig |-> EXIT_EVENT]
Init_Event == [sig |-> INIT_EVENT]

\* ------------------------------------------------------------------------
\* fsm.h
\* ------------------------------------------------------------------------
FSM_TRAN_STATUS == "FSM_TRAN_STATUS"
FSM_HANDLED_STATUS == "FSM_HANDLED_STATUS"
FSM_IGNORED_STATUS == "FSM_IGNORED_STATUS"
FSM_ERROR_STATUS == "FSM_ERROR_STATUS"

Fsm_Status == {FSM_TRAN_STATUS, FSM_HANDLED_STATUS, FSM_IGNORED_STATUS, FSM_ERROR_STATUS}

\* A State is a function pointer: the State Handlers of the application,
\* told apart by identity only, and the NULL pointer.
NULL == "NULL"
Fsm_Handler == {"INITIAL", "A", "B", "C"}
HandlerOrNull == Fsm_Handler \cup {NULL}

\* Marks, in the log, a handler call that ended in My_Assert_Handler().
NO_RETURN == "NO_RETURN"

VARIABLES
    state,                  \* me->state
    max_state_transitions,  \* me->max_state_transitions
    pc,                     \* where the program is
    call,                   \* the API call in progress, or the last one made
    status,                 \* local variable of Fsm_Begin / Fsm_Dispatch
    prev_state,             \* local variable of Fsm_Begin / Fsm_Dispatch
    i,                      \* local variable of Fsm_Begin / Fsm_Dispatch
    log,                    \* handler calls made by the call in progress
    asserted,               \* number of calls of My_Assert_Handler()
    begun,                  \* Fsm_Begin has been called on the object
    run                     \* history of the object since Fsm_Ctor

\* ------------------------------------------------------------------------
\* ring_buffer_static.h
\* ------------------------------------------------------------------------
NUMBER_OF_STATIC_RING_BUFFERS == 4
RING_BUFFER_STATIC_SIZE == 200

\* Largest element_size_0 and number_of_elements_0 the application passes to
\* Ring_Buffer_Static_Ctor, and largest data_size it passes to Write / Read.
MaxElementSize == 2
MaxElements == 2

\* The Ring_Buffer_Static_Handle objects of the application, told apart by
\* their address.  The application works with the DataHandles; the others
\* belong to code that constructed them, or not, before.
HandleObjects == {"h1", "h2"}
DataHandles == {"h1"}
HandleOrNull == HandleObjects \cup {NULL}

\* What the memory of a Handle object holds before the first constructor
\* call on it: an index of the pool, or a value outside of it.
UninitializedHandleValues == {0, NUMBER_OF_STATIC_RING_BUFFERS}

\* The elements the application writes: data_size bytes, all different from
\* 0 and from each other, that depend on the value v.
ElementValues == {1, 2}
Element(v, data_size) == [k \in 1..data_size |-> 16 * v + k]

\* The pointer to the data handed to Write: NULL, or the address of bytes.
NullData == [is_null |-> TRUE, bytes |-> <<>>]
Data(bytes) == [is_null |-> FALSE, bytes |-> bytes]

VARIABLES
    RB_Instances,           \* the pool of Ring Buffers
    RB_Instances_In_Use,    \* which Ring Buffers of the pool are reserved
    Handle,                 \* the value stored in each Handle object
    rb_call,                \* the last call of the ring buffer API
    shadow                  \* per Handle: the elements written, not yet read

\* ------------------------------------------------------------------------
\* byte_swap.h, ring_buffer_dynamic.h and the application of two contexts
\* ------------------------------------------------------------------------
VARIABLES
    swap,                   \* the value handed to the byte swaps, and their results
    heap,                   \* the objects obtained from malloc() and not freed
    dyn_handle,             \* the Ring_Buffer_Dynamic_Handle of the application
    dyn_call,               \* the last call of the dynamic ring buffer API
    producer,               \* the Ring_Buffer_Static_Write in progress in one context
    consumer                \* the Ring_Buffer_Static_Read in progress in the other

fsm_vars == <<state, max_state_transitions, pc, call, status, prev_state, i, log, asserted, begun, run>>
ring_vars == <<RB_Instances, RB_Instances_In_Use, Handle, rb_call, shadow>>
swap_vars == <<swap>>
dyn_vars == <<heap, dyn_handle, dyn_call>>
spsc_vars == <<producer, consumer>>
vars == <<fsm_vars, ring_vars, swap_vars, dyn_vars, spsc_vars>>

\* ------------------------------------------------------------------------
\* State Handlers (application code, see fsm.h)
\* ------------------------------------------------------------------------

\* What a State Handler does with an Event: either `return FSM_TRAN(me, target)`
\* or `return` one of the other three Statuses without touching me->state.
HandlerReactions ==
    [tran : {TRUE}, target : HandlerOrNull, status : {FSM_TRAN_STATUS}]
    \cup [tran : {FALSE}, target : {NULL},
          status : {FSM_HANDLED_STATUS, FSM_IGNORED_STATUS, FSM_ERROR_STATUS}]

\* FSM_TRAN: RUNTIME_ASSERT((me && target)) holds.
FSM_TRAN_Assert(target) == target # NULL

\* The handler comes back to the dispatcher (no assertion fired inside it).
Returns(r) == r.tran => FSM_TRAN_Assert(r.target)

\* Faulty variant: FSM_TRAN writes me->state before its assertion.
FSM_TRAN_State_WriteFirst(r, s) == IF r.tran THEN r.target ELSE s

\* me->state once the handler call is over: FSM_TRAN writes it after its assertion.
FSM_TRAN_State(r, s) == IF r.tran /\ FSM_TRAN_Assert(r.target) THEN r.target ELSE s

\* The record of one handler call.
Invocation(h, e, r) ==
    [h |-> h, sig |-> e.sig,
     ret |-> IF Returns(r) THEN r.status ELSE NO_RETURN,
     target |-> IF r.tran THEN r.target ELSE NULL]

\* ------------------------------------------------------------------------
\* asserter.h: My_Assert_Handler() never returns
\* ------------------------------------------------------------------------
My_Assert_Handler ==
    /\ pc' = "fatal"
    /\ asserted' = asserted + 1

NoAssert == asserted' = asserted

\* ------------------------------------------------------------------------
\* Fsm_Ctor
\* ------------------------------------------------------------------------
\* Faulty variant: max_state_transitions_0 is not looked at.
Fsm_Ctor_Assert_AnyBound(me, init_state_handler_0, max_state_transitions_0) ==
    me # NULL /\ init_state_handler_0 # NULL

Fsm_Ctor_Assert(me, init_state_handler_0, max_state_transitions_0) ==
    me # NULL /\ init_state_handler_0 # NULL /\ max_state_transitions_0 # 0

Fsm_Ctor_State(init_state_handler_0) == init_state_handler_0

\* The constructor writes me->state only.
Fsm_Ctor_Max(max_state_transitions_0) == max_state_transitions

\* The arguments of an API call, with me->state and me->max_state_transitions
\* as the call finds them.  For Fsm_Ctor h is init_state_handler_0; for
\* Fsm_Begin h recalls the handler that was given to Fsm_Ctor.  first: no
\* handler has been called on the object before this call.
CallRecord(op, me, h, n, e_null, sig) ==
    [op |-> op, me |-> me, h |-> h, n |-> n, e_null |-> e_null, sig |-> sig,
     state0 |-> state, max0 |-> max_state_transitions,
     first |-> ~run.handler_called]

\* The history of the object: the handler given to Fsm_Ctor (kept until the
\* first handler call, Fsm_Begin takes it into its call record), whether any
\* handler has been called and how many Init Events have been sent.  Where
\* the Entry and Exit Events are paired up (paired), it also has the States
\* that got an Entry Event and no Exit Event since, and whether Fsm_Dispatch
\* called a handler before Fsm_Begin was called.
NoHistory ==
    [init_state_handler |-> NULL, handler_called |-> FALSE, inits |-> 0,
     paired |-> FALSE, entered |-> {}, dispatched_early |-> FALSE]

PairedHistory == [NoHistory EXCEPT !.paired = TRUE]

Entered(entered, h, e) ==
    IF e.sig = ENTRY_EVENT THEN entered \cup {h}
    ELSE IF e.sig = EXIT_EVENT THEN entered \ {h}
    ELSE entered

HandlerCalled(h, e) ==
    run' = [run EXCEPT !.handler_called = TRUE,
                       !.init_state_handler = NULL,
                       !.inits = IF e.sig = INIT_EVENT THEN @ + 1 ELSE @,
                       !.entered = IF run.paired THEN Entered(@, h, e) ELSE @,
                       !.dispatched_early = @ \/ (run.paired /\ ~begun)]

Fsm_Ctor ==
    /\ pc = "allocated"
    /\ UNCHANGED <<ring_vars, swap_vars, dyn_vars, spsc_vars>>
    /\ \E me \in {"fsm", NULL}, h \in HandlerOrNull, n \in 0..MaxTransitions :
        /\ call' = CallRecord("Fsm_Ctor", me, h, n, FALSE, 0)
        /\ IF Fsm_Ctor_Assert(me, h, n)
           THEN /\ state' = Fsm_Ctor_State(h)
                /\ max_state_transitions' = Fsm_Ctor_Max(n)
                /\ pc' = "idle"
                /\ run' = [run EXCEPT !.init_state_handler = h]
                /\ NoAssert
           ELSE /\ My_Assert_Handler
                /\ UNCHANGED <<state, max_state_transitions, run>>
    /\ UNCHANGED <<status, prev_state, i, log, begun>>

\* ------------------------------------------------------------------------
\* Fsm_Begin
\* ------------------------------------------------------------------------
Fsm_Begin_Assert(me, max, s) == me # NULL /\ max # 0 /\ s # NULL

\* Faulty variant: the Status returned to the Init Event is not looked at.
Fsm_Begin_InitAssert_AnyStatus(st, s) == s # NULL

Fsm_Begin_InitAssert(st, s) == st = FSM_TRAN_STATUS /\ s # NULL

\* Faulty variant: the loop goes on whatever Status the Entry Event returned.
Fsm_Begin_Loop_AnyStatus(st, s, j, max) == s # NULL /\ j < max

Fsm_Begin_Loop(st, s, j, max) == st = FSM_TRAN_STATUS /\ s # NULL /\ j < max

\* Line 139: the Exit Event goes to the saved State, not to me->state.
Fsm_Begin_ExitHandler(prev, s) == prev

Fsm_Begin_ExitAssert(st) == st # FSM_TRAN_STATUS /\ st # FSM_ERROR_STATUS

Fsm_Begin_FinalAssert(s, j, max, st) == s # NULL /\ j <= max /\ st # FSM_ERROR_STATUS

\* Lines 111-121: the call, its local variables and the two entry assertions.
Fsm_Begin ==
    /\ pc = "idle"
    /\ UNCHANGED <<ring_vars, swap_vars, dyn_vars, spsc_vars>>
    /\ ~begun
    /\ \E me \in {"fsm", NULL} :
        /\ call' = CallRecord("Fsm_Begin", me, run.init_state_handler, 0, FALSE, 0)
        /\ IF Fsm_Begin_Assert(me, max_state_transitions, state)
           THEN pc' = "begin_init" /\ NoAssert
           ELSE My_Assert_Handler
    /\ begun' = TRUE
    /\ status' = FSM_ERROR_STATUS
    /\ prev_state' = NULL
    /\ i' = 0
    /\ log' = <<>>
    /\ UNCHANGED <<state, max_state_transitions, run>>

\* Lines 124-128: the Init State Handler runs, then prev_state = me->state.
Fsm_Begin_Init ==
    /\ pc = "begin_init"
    /\ UNCHANGED <<ring_vars, swap_vars, dyn_vars, spsc_vars>>
    /\ \E r \in HandlerReactions :
        LET s == FSM_TRAN_State(r, state) IN
        /\ log' = Append(log, Invocation(state, Init_Event, r))
        /\ HandlerCalled(state, Init_Event)
        /\ state' = s
        /\ IF ~Returns(r)
           THEN My_Assert_Handler /\ UNCHANGED <<status, prev_state>>
           ELSE /\ status' = r.status
                /\ IF Fsm_Begin_InitAssert(r.status, s)
                   THEN pc' = "begin_entry" /\ prev_state' = s /\ NoAssert
                   ELSE My_Assert_Handler /\ UNCHANGED prev_state
    /\ UNCHANGED <<max_state_transitions, call, i, begun>>

\* What follows an Entry Event in Fsm_Begin: the loop test of line 132 with
\* the counter j, then either the loop body or the assertion of line 148.
Fsm_Begin_AfterEntry(st, s, j) ==
    /\ i' = j
    /\ IF Fsm_Begin_Loop(st, s, j, max_state_transitions)
       THEN pc' = "begin_exit" /\ NoAssert
       ELSE IF Fsm_Begin_FinalAssert(s, j, max_state_transitions, st)
            THEN pc' = "idle" /\ NoAssert
            ELSE My_Assert_Handler

\* Lines 129 and 144: the Entry Event of the State transitioned into.  The
\* first one (line 129) is followed by i = 0, the ones in the loop by i++.
Fsm_Begin_Entry ==
    /\ pc = "begin_entry"
    /\ UNCHANGED <<ring_vars, swap_vars, dyn_vars, spsc_vars>>
    /\ \E r \in HandlerReactions :
        LET s == FSM_TRAN_State(r, state)
            j == IF \E k \in 1..Len(log) : log[k].sig = ENTRY_EVENT THEN i + 1 ELSE 0
        IN
        /\ log' = Append(log, Invocation(state, Entry_Event, r))
        /\ HandlerCalled(state, Entry_Event)
        /\ state' = s
        /\ IF ~Returns(r)
           THEN My_Assert_Handler /\ UNCHANGED <<status, i>>
           ELSE status' = r.status /\ Fsm_Begin_AfterEntry(r.status, s, j)
    /\ UNCHANGED <<max_state_transitions, call, prev_state, begun>>

\* Lines 139-143: the Exit Event of the State transitioned out of, then
\* prev_state = me->state.
Fsm_Begin_Exit ==
    /\ pc = "begin_exit"
    /\ UNCHANGED <<ring_vars, swap_vars, dyn_vars, spsc_vars>>
    /\ \E r \in HandlerReactions :
        LET s == FSM_TRAN_State(r, state) IN
        /\ log' = Append(log, Invocation(Fsm_Begin_ExitHandler(prev_state, state), Exit_Event, r))
        /\ HandlerCalled(Fsm_Begin_ExitHandler(prev_state, state), Exit_Event)
        /\ state' = s
        /\ IF ~Returns(r)
           THEN My_Assert_Handler /\ UNCHANGED <<status, prev_state>>
           ELSE /\ status' = r.status
                /\ IF Fsm_Begin_ExitAssert(r.status)
                   THEN pc' = "begin_entry" /\ prev_state' = s /\ NoAssert
                   ELSE My_Assert_Handler /\ UNCHANGED prev_state
    /\ UNCHANGED <<max_state_transitions, call, i, begun>>

\* ------------------------------------------------------------------------
\* Fsm_Dispatch
\* ------------------------------------------------------------------------
\* Faulty variant: the Signal of the Event is not looked at.
Fsm_Dispatch_Assert_AnySignal(me, e_null, max, s, sig) ==
    /\ me # NULL /\ ~e_null
    /\ max # 0 /\ s # NULL

\* Faulty variant: IDLE_EVENT is let through.
Fsm_Dispatch_Assert_IdleAllowed(me, e_null, max, s, sig) ==
    /\ me # NULL /\ ~e_null
    /\ max # 0 /\ s # NULL /\ sig >= IDLE_EVENT

\* Faulty variant: the dispatcher refuses an object that was never begun.
Fsm_Dispatch_Assert_Begun(me, e_null, max, s, sig) ==
    /\ me # NULL /\ ~e_null
    /\ max # 0 /\ s # NULL /\ sig >= USER_SIG /\ begun

Fsm_Dispatch_Assert(me, e_null, max, s, sig) ==
    /\ me # NULL /\ ~e_null
    /\ max # 0 /\ s # NULL /\ sig >= USER_SIG

\* Faulty variant: the loop goes on whatever Status the handler returned.
Fsm_Dispatch_Loop_AnyStatus(st, s, j, max) == s # NULL /\ j < max

\* Faulty variant: a transition is told by me->state having changed.
Fsm_Dispatch_Loop_Identity(st, s, j, max) == s # prev_state /\ s # NULL /\ j < max

\* Faulty variant: the loop runs once more than the bound.
Fsm_Dispatch_Loop_OneMore(st, s, j, max) == st = FSM_TRAN_STATUS /\ s # NULL /\ j <= max

Fsm_Dispatch_Loop(st, s, j, max) == st = FSM_TRAN_STATUS /\ s # NULL /\ j < max

\* Faulty variant: the Exit Event goes to me->state.
Fsm_Dispatch_ExitHandler_Current(prev, s) == s

\* Line 185: the Exit Event goes to the saved State, not to me->state.
Fsm_Dispatch_ExitHandler(prev, s) == prev

\* Faulty variant: a transition in the Exit Event is accepted.
Fsm_Dispatch_ExitAssert_ErrorOnly(st) == st # FSM_ERROR_STATUS

Fsm_Dispatch_ExitAssert(st) == st # FSM_TRAN_STATUS /\ st # FSM_ERROR_STATUS

\* Faulty variant: the last Status is not looked at.
Fsm_Dispatch_FinalAssert_AnyStatus(s, j, max, st) == s # NULL /\ j <= max

Fsm_Dispatch_FinalAssert(s, j, max, st) == s # NULL /\ j <= max /\ st # FSM_ERROR_STATUS

\* Lines 160-174: the call, its local variables, the two entry assertions
\* and prev_state = me->state.
Fsm_Dispatch ==
    /\ pc = "idle"
    /\ UNCHANGED <<ring_vars, swap_vars, dyn_vars, spsc_vars>>
    /\ \E me \in {"fsm", NULL}, e_null \in BOOLEAN, sig \in DispatchSignals :
        /\ e_null => sig = USER_SIG
        /\ call' = CallRecord("Fsm_Dispatch", me, NULL, 0, e_null, sig)
        /\ IF Fsm_Dispatch_Assert(me, e_null, max_state_transitions, state, sig)
           THEN pc' = "dispatch_event" /\ prev_state' = state /\ NoAssert
           ELSE My_Assert_Handler /\ prev_state' = NULL
    /\ status' = FSM_ERROR_STATUS
    /\ i' = 0
    /\ log' = <<>>
    /\ UNCHANGED <<state, max_state_transitions, begun, run>>

\* What follows the dispatched Event and every Entry Event in Fsm_Dispatch:
\* the loop test of line 178 with the counter j, then either the loop body
\* or the assertion of line 194.
Fsm_Dispatch_AfterHandler(st, s, j) ==
    /\ i' = j
    /\ IF Fsm_Dispatch_Loop(st, s, j, max_state_transitions)
       THEN pc' = "dispatch_exit" /\ NoAssert
       ELSE IF Fsm_Dispatch_FinalAssert(s, j, max_state_transitions, st)
            THEN pc' = "idle" /\ NoAssert
            ELSE My_Assert_Handler

\* Line 175: the Event goes to the current State; then i = 0.
Fsm_Dispatch_Event ==
    /\ pc = "dispatch_event"
    /\ UNCHANGED <<ring_vars, swap_vars, dyn_vars, spsc_vars>>
    /\ \E r \in HandlerReactions :
        LET s == FSM_TRAN_State(r, state) IN
        /\ log' = Append(log, Invocation(state, [sig |-> call.sig], r))
        /\ HandlerCalled(state, [sig |-> call.sig])
        /\ state' = s
        /\ IF ~Returns(r)
           THEN My_Assert_Handler /\ UNCHANGED <<status, i>>
           ELSE status' = r.status /\ Fsm_Dispatch_AfterHandler(r.status, s, 0)
    /\ UNCHANGED <<max_state_transitions, call, prev_state, begun>>

\* Lines 185-189: the Exit Event of the State transitioned out of, then
\* prev_state = me->state.
Fsm_Dispatch_Exit ==
    /\ pc = "dispatch_exit"
    /\ UNCHANGED <<ring_vars, swap_vars, dyn_vars, spsc_vars>>
    /\ \E r \in HandlerReactions :
        LET s == FSM_TRAN_State(r, state) IN
        /\ log' = Append(log, Invocation(Fsm_Dispatch_ExitHandler(prev_state, state), Exit_Event, r))
        /\ HandlerCalled(Fsm_Dispatch_ExitHandler(prev_state, state), Exit_Event)
        /\ state' = s
        /\ IF ~Returns(r)
           THEN My_Assert_Handler /\ UNCHANGED <<status, prev_state>>
           ELSE /\ status' = r.status
                /\ IF Fsm_Dispatch_ExitAssert(r.status)
                   THEN pc' = "dispatch_entry" /\ prev_state' = s /\ NoAssert
                   ELSE My_Assert_Handler /\ UNCHANGED prev_state
    /\ UNCHANGED <<max_state_transitions, call, i, begun>>

\* Line 190 and the i++ of line 178: the Entry Event of the State
\* transitioned into.
Fsm_Dispatch_Entry ==
    /\ pc = "dispatch_entry"
    /\ UNCHANGED <<ring_vars, swap_vars, dyn_vars, spsc_vars>>
    /\ \E r \in HandlerReactions :
        LET s == FSM_TRAN_State(r, state) IN
        /\ log' = Append(log, Invocation(state, Entry_Event, r))
        /\ HandlerCalled(state, Entry_Event)
        /\ state' = s
        /\ IF ~Returns(r)
           THEN My_Assert_Handler /\ UNCHANGED <<status, i>>
           ELSE status' = r.status /\ Fsm_Dispatch_AfterHandler(r.status, s, i + 1)
    /\ UNCHANGED <<max_state_transitions, call, prev_state, begun>>

\* ------------------------------------------------------------------------
\* The program
\* ------------------------------------------------------------------------

\* ------------------------------------------------------------------------
\* ring_buffer_static.c
\* ------------------------------------------------------------------------

\* uint8_t buffer[RING_BUFFER_STATIC_SIZE] is kept as the function from the
\* offsets of its non-zero bytes to these bytes.
ZeroedBuffer == <<>>
ByteAt(buffer, offset) == IF offset \in DOMAIN buffer THEN buffer[offset] ELSE 0

\* memcpy(buffer + offset, data, data_size)
Memcpy_In(buffer, offset, data, data_size) ==
    LET byte(k) == IF k \in offset..(offset + data_size - 1)
                   THEN data[k - offset + 1]
                   ELSE ByteAt(buffer, k)
        touched == DOMAIN buffer \cup (offset..(offset + data_size - 1))
    IN  [k \in {t \in touched : byte(t) # 0} |-> byte(k)]

\* memcpy(data, buffer + offset, data_size)
Memcpy_Out(buffer, offset, data_size) ==
    [k \in 1..data_size |-> ByteAt(buffer, offset + k - 1)]

\* A Ring Buffer of the pool as the program is loaded.
Ring_Buffer_t ==
    [handle |-> NULL, buffer |-> ZeroedBuffer, head |-> 0, tail |-> 0,
     element_size |-> 0, capacity |-> 0, is_empty |-> FALSE]

PoolIndex == 0..(NUMBER_OF_STATIC_RING_BUFFERS - 1)

Is_Valid_Handle_InRange(me) ==
    /\ me # NULL
    /\ Handle[me] < NUMBER_OF_STATIC_RING_BUFFERS

Is_Valid_Handle_IndexOnly(me) ==
    /\ me # NULL
    /\ Handle[me] < NUMBER_OF_STATIC_RING_BUFFERS
    /\ RB_Instances_In_Use[Handle[me]]

Is_Valid_Handle(me) ==
    /\ me # NULL
    /\ Handle[me] < NUMBER_OF_STATIC_RING_BUFFERS
    /\ RB_Instances_In_Use[Handle[me]]
    /\ RB_Instances[Handle[me]].handle = me

Ring_Buffer_Static_Is_Empty_NeverEmpty(me) == FALSE

Ring_Buffer_Static_Is_Empty_DefaultTrue(me) ==
    IF Is_Valid_Handle(me) THEN RB_Instances[Handle[me]].is_empty ELSE TRUE

Ring_Buffer_Static_Is_Empty(me) ==
    IF Is_Valid_Handle(me) THEN RB_Instances[Handle[me]].is_empty ELSE FALSE

Ring_Buffer_Static_Is_Full_NeverFull(me) ==
    IF Is_Valid_Handle(me) THEN FALSE ELSE TRUE

Ring_Buffer_Static_Is_Full(me) ==
    IF Is_Valid_Handle(me)
    THEN /\ RB_Instances[Handle[me]].head = RB_Instances[Handle[me]].tail
         /\ ~RB_Instances[Handle[me]].is_empty
    ELSE TRUE

Ring_Buffer_Static_Get_Number_Of_Elements(me) ==
    IF Is_Valid_Handle(me)
    THEN IF Ring_Buffer_Static_Is_Full(me)
         THEN RB_Instances[Handle[me]].capacity
         ELSE IF Ring_Buffer_Static_Is_Empty(me)
              THEN 0
              ELSE RB_Instances[Handle[me]].head \div RB_Instances[Handle[me]].element_size
    ELSE 0

\* What the application knows of a Handle: the arguments of the successful
\* constructor call and the elements accepted by Write and not yet handed
\* back by Read.
NoShadow ==
    [elements |-> <<>>, element_size |-> 0, number_of_elements |-> 0, destroyed |-> FALSE]

\* The same for a Handle since its successful Ring_Buffer_Static_Destroy.
DestroyedShadow == [NoShadow EXCEPT !.destroyed = TRUE]

\* The same right after a successful constructor call.
CtorShadow(element_size_0, number_of_elements_0) ==
    [NoShadow EXCEPT !.element_size = element_size_0,
                     !.number_of_elements = number_of_elements_0]

RbCall(op, me, data_null, data_size, success, data) ==
    [op |-> op, me |-> me, data_null |-> data_null, data_size |-> data_size,
     success |-> success, data |-> data,
     element_size_0 |-> 0, number_of_elements_0 |-> 0, count |-> 0,
     valid0 |-> Is_Valid_Handle(me),
     before |-> IF me = NULL THEN NoShadow ELSE shadow[me],
     crashed |-> FALSE]

\* No call of the ring buffer API was made yet.
NoCall ==
    [op |-> "none", me |-> NULL, data_null |-> FALSE, data_size |-> 0,
     success |-> FALSE, data |-> <<>>, element_size_0 |-> 0,
     number_of_elements_0 |-> 0, count |-> 0, valid0 |-> FALSE, before |-> NoShadow,
     crashed |-> FALSE]

\* element_size_0 * number_of_elements_0 as the machine computes it: size_t
\* and uint32_t of 32 bits, so the product modulo 2^32.  The product is kept
\* as two halves of 16 bits, [hi, lo], and is computed from products that
\* stay below 2^31, for arguments below 2^31.
Half == 2^16
Quarter == 2^8
Size_Product(element_size_0, number_of_elements_0) ==
    LET al == element_size_0 % Half
        ah == element_size_0 \div Half
        bl == number_of_elements_0 % Half
        bh == number_of_elements_0 \div Half
        t0 == al * (bl % Quarter)
        t1 == al * (bl \div Quarter)
        low == t0 + Quarter * (t1 % Quarter)
        carry == (low \div Half) + (t1 \div Quarter)
    IN  [hi |-> (carry + ((ah * bl) % Half) + ((al * bh) % Half)) % Half,
         lo |-> low % Half]

\* product <= RING_BUFFER_STATIC_SIZE, and the product as a size_t.
Size_Fits(product) == product.hi = 0 /\ product.lo <= RING_BUFFER_STATIC_SIZE
Size_Value(product) == product.hi * Half + product.lo

\* The condition of the constructor on its arguments.
Ring_Buffer_Static_Ctor_Check(me, element_size_0, number_of_elements_0) ==
    /\ me # NULL
    /\ element_size_0 # 0
    /\ number_of_elements_0 # 0
    /\ Size_Fits(Size_Product(element_size_0, number_of_elements_0))

Free_Instances_All == PoolIndex

\* The Ring Buffers the for loop of the constructor finds free.
Free_Instances == {k \in PoolIndex : ~RB_Instances_In_Use[k]}
First_Free == CHOOSE k \in Free_Instances : \A j \in Free_Instances : k <= j

Ring_Buffer_Static_Ctor(me, element_size_0, number_of_elements_0) ==
    LET success == /\ ~Is_Valid_Handle(me)
                   /\ Ring_Buffer_Static_Ctor_Check(me, element_size_0, number_of_elements_0)
                   /\ Free_Instances # {}
    IN  /\ IF success
           THEN /\ Handle' = [Handle EXCEPT ![me] = First_Free]
                /\ RB_Instances' =
                       [RB_Instances EXCEPT ![First_Free] =
                           [@ EXCEPT !.handle = me, !.head = 0, !.tail = 0,
                                     !.element_size = element_size_0,
                                     !.capacity = Size_Value(Size_Product(element_size_0,
                                                                          number_of_elements_0)),
                                     !.is_empty = TRUE]]
                /\ RB_Instances_In_Use' = [RB_Instances_In_Use EXCEPT ![First_Free] = TRUE]
                /\ shadow' = [shadow EXCEPT ![me] =
                                 CtorShadow(element_size_0, number_of_elements_0)]
           ELSE UNCHANGED <<Handle, RB_Instances, RB_Instances_In_Use, shadow>>
        /\ rb_call' = [RbCall("Ring_Buffer_Static_Ctor", me, FALSE, 0, success, <<>>)
                           EXCEPT !.element_size_0 = element_size_0,
                                  !.number_of_elements_0 = number_of_elements_0]
        /\ UNCHANGED <<fsm_vars, swap_vars, dyn_vars, spsc_vars>>

Cleared_KeepsFlag(rb) ==
    [rb EXCEPT !.buffer = ZeroedBuffer, !.head = 0, !.tail = 0]

\* The Ring Buffer after the body of Ring_Buffer_Static_Clear.
Cleared(rb) ==
    [rb EXCEPT !.buffer = ZeroedBuffer, !.head = 0, !.tail = 0, !.is_empty = TRUE]

Ring_Buffer_Static_Clear(me) ==
    LET success == Is_Valid_Handle(me) IN
    /\ IF success
       THEN /\ RB_Instances' = [RB_Instances EXCEPT ![Handle[me]] = Cleared(@)]
            /\ shadow' = [shadow EXCEPT ![me].elements = <<>>]
       ELSE UNCHANGED <<RB_Instances, shadow>>
    /\ rb_call' = RbCall("Ring_Buffer_Static_Clear", me, FALSE, 0, success, <<>>)
    /\ UNCHANGED <<Handle, RB_Instances_In_Use>>
    /\ UNCHANGED <<fsm_vars, swap_vars, dyn_vars, spsc_vars>>

Released_Leak(in_use, index) == in_use

\* The pool flags after Ring_Buffer_Static_Destroy freed the Ring Buffer index.
Released(in_use, index) == [in_use EXCEPT ![index] = FALSE]

Ring_Buffer_Static_Destroy(me) ==
    LET success == Is_Valid_Handle(me) IN
    /\ IF success
       THEN /\ RB_Instances' = [RB_Instances EXCEPT ![Handle[me]] =
                                   [Cleared(@) EXCEPT !.handle = NULL]]
            /\ RB_Instances_In_Use' = Released(RB_Instances_In_Use, Handle[me])
            /\ shadow' = [shadow EXCEPT ![me] = DestroyedShadow]
       ELSE UNCHANGED <<RB_Instances, RB_Instances_In_Use, shadow>>
    /\ rb_call' = RbCall("Ring_Buffer_Static_Destroy", me, FALSE, 0, success, <<>>)
    /\ UNCHANGED Handle
    /\ UNCHANGED <<fsm_vars, swap_vars, dyn_vars, spsc_vars>>

\* The condition of Ring_Buffer_Static_Write on its arguments.
Ring_Buffer_Static_Write_Check(me, data, data_size) ==
    /\ Is_Valid_Handle(me)
    /\ ~Ring_Buffer_Static_Is_Full(me)
    /\ ~data.is_null
    /\ data_size = RB_Instances[Handle[me]].element_size

\* The new head after a Write.
Write_Head(head, data_size, capacity) == (head + data_size) % capacity

\* The memcpy of line 228 or 250 passes the end of buffer[], or the % of
\* line 229 or 251 divides by a capacity of 0: the behaviour is undefined.
Out_Of_Bounds(rb, offset, data_size) ==
    \/ offset + data_size > RING_BUFFER_STATIC_SIZE
    \/ rb.capacity = 0

\* What a member of a Ring Buffer holds once a memcpy went over it: bytes of
\* the data, which are the address of no Handle object.
Overwritten(rb, data) ==
    [handle |-> "overwritten", buffer |-> Memcpy_In(rb.buffer, 0, data, 1),
     head |-> data[1], tail |-> data[1], element_size |-> data[1],
     capacity |-> data[1], is_empty |-> TRUE]

\* The pool after the memcpy of line 228 went past the end of the buffer of
\* the Ring Buffer index and over the reach Ring Buffers that follow it in
\* RB_Instances.
Overrun(index, reach, data) ==
    [k \in PoolIndex |->
        IF k = index
        THEN [Overwritten(RB_Instances[k], data) EXCEPT
                 !.handle = RB_Instances[k].handle,
                 !.buffer = Memcpy_In(RB_Instances[k].buffer, RB_Instances[k].head, data,
                                      RING_BUFFER_STATIC_SIZE - RB_Instances[k].head)]
        ELSE IF k > index /\ k <= index + reach
             THEN Overwritten(RB_Instances[k], data)
             ELSE RB_Instances[k]]

\* A Write whose behaviour is undefined: the program is stopped, or the
\* bytes go over what follows the buffer in memory and Write returns.
Ring_Buffer_Static_Write_Undefined(me, data, data_size) ==
    \/ /\ rb_call' = [RbCall("Ring_Buffer_Static_Write", me, FALSE, data_size, FALSE, <<>>)
                          EXCEPT !.crashed = TRUE]
       /\ UNCHANGED <<RB_Instances, shadow>>
    \/ /\ \E reach \in 0..(NUMBER_OF_STATIC_RING_BUFFERS - 1 - Handle[me]) :
              RB_Instances' = Overrun(Handle[me], reach, data.bytes)
       /\ shadow' = [shadow EXCEPT ![me].elements = Append(@, data.bytes)]
       /\ rb_call' = RbCall("Ring_Buffer_Static_Write", me, FALSE, data_size, TRUE, <<>>)

Ring_Buffer_Static_Write(me, data, data_size) ==
    LET success == Ring_Buffer_Static_Write_Check(me, data, data_size) IN
    IF success /\ Out_Of_Bounds(RB_Instances[Handle[me]], RB_Instances[Handle[me]].head, data_size)
    THEN /\ Ring_Buffer_Static_Write_Undefined(me, data, data_size)
         /\ UNCHANGED <<Handle, RB_Instances_In_Use>>
         /\ UNCHANGED <<fsm_vars, swap_vars, dyn_vars, spsc_vars>>
    ELSE
    /\ IF success
       THEN /\ RB_Instances' =
                   [RB_Instances EXCEPT ![Handle[me]] =
                       [@ EXCEPT !.buffer = Memcpy_In(@, RB_Instances[Handle[me]].head, data.bytes, data_size),
                                 !.head = Write_Head(@, data_size, RB_Instances[Handle[me]].capacity),
                                 !.is_empty = FALSE]]
            /\ shadow' = [shadow EXCEPT ![me].elements = Append(@, data.bytes)]
       ELSE UNCHANGED <<RB_Instances, shadow>>
    /\ rb_call' = RbCall("Ring_Buffer_Static_Write", me, data.is_null, data_size, success, <<>>)
    /\ UNCHANGED <<Handle, RB_Instances_In_Use>>
    /\ UNCHANGED <<fsm_vars, swap_vars, dyn_vars, spsc_vars>>

Ring_Buffer_Static_Read_Check_AnySize(me, data_null, data_size) ==
    /\ Is_Valid_Handle(me)
    /\ ~Ring_Buffer_Static_Is_Empty(me)
    /\ ~data_null

\* The condition of Ring_Buffer_Static_Read on its arguments.
Ring_Buffer_Static_Read_Check(me, data_null, data_size) ==
    /\ Is_Valid_Handle(me)
    /\ ~Ring_Buffer_Static_Is_Empty(me)
    /\ ~data_null
    /\ data_size = RB_Instances[Handle[me]].element_size

Read_Tail_NoWrap(tail, data_size, capacity) == tail + data_size

\* The new tail after a Read.
Read_Tail(tail, data_size, capacity) == (tail + data_size) % capacity

\* A Read whose behaviour is undefined: the program is stopped, or Read
\* returns bytes that are not those of an element, with tail as it was or 0.
Ring_Buffer_Static_Read_Undefined(me, data_size) ==
    \/ /\ rb_call' = [RbCall("Ring_Buffer_Static_Read", me, FALSE, data_size, FALSE, <<>>)
                          EXCEPT !.crashed = TRUE]
       /\ UNCHANGED <<RB_Instances, shadow>>
    \/ /\ \E new_tail \in {0, RB_Instances[Handle[me]].tail} :
              RB_Instances' = [RB_Instances EXCEPT ![Handle[me]].tail = new_tail]
       /\ shadow' = [shadow EXCEPT ![me].elements = IF @ = <<>> THEN @ ELSE Tail(@)]
       /\ rb_call' = RbCall("Ring_Buffer_Static_Read", me, FALSE, data_size, TRUE,
                            Memcpy_Out(RB_Instances[Handle[me]].buffer,
                                       RB_Instances[Handle[me]].tail, data_size))

\* data is the memory the application passes to Read: NULL, or data_size
\* bytes that Read fills.
Ring_Buffer_Static_Read(me, data_null, data_size) ==
    LET success == Ring_Buffer_Static_Read_Check(me, data_null, data_size)
        rb == RB_Instances[Handle[me]]
        new_tail == Read_Tail(rb.tail, data_size, rb.capacity)
    IN
    IF success /\ Out_Of_Bounds(rb, rb.tail, data_size)
    THEN /\ Ring_Buffer_Static_Read_Undefined(me, data_size)
         /\ UNCHANGED <<Handle, RB_Instances_In_Use>>
         /\ UNCHANGED <<fsm_vars, swap_vars, dyn_vars, spsc_vars>>
    ELSE
    /\ IF success
       THEN /\ RB_Instances' =
                   [RB_Instances EXCEPT ![Handle[me]] =
                       [@ EXCEPT !.tail = new_tail,
                                 !.is_empty = IF rb.head = new_tail THEN TRUE ELSE @]]
            /\ shadow' = [shadow EXCEPT ![me].elements = IF @ = <<>> THEN @ ELSE Tail(@)]
            /\ rb_call' = RbCall("Ring_Buffer_Static_Read", me, data_null, data_size, TRUE,
                                 Memcpy_Out(rb.buffer, rb.tail, data_size))
       ELSE /\ UNCHANGED <<RB_Instances, shadow>>
            /\ rb_call' = RbCall("Ring_Buffer_Static_Read", me, data_null, data_size, FALSE, <<>>)
    /\ UNCHANGED <<Handle, RB_Instances_In_Use>>
    /\ UNCHANGED <<fsm_vars, swap_vars, dyn_vars, spsc_vars>>

\* The three status queries: they read and return.
Get_Number_Of_Elements_Call(me) ==
    /\ rb_call' = [RbCall("Ring_Buffer_Static_Get_Number_Of_Elements", me, FALSE, 0, FALSE, <<>>)
                       EXCEPT !.count = Ring_Buffer_Static_Get_Number_Of_Elements(me)]
    /\ UNCHANGED <<RB_Instances, RB_Instances_In_Use, Handle, shadow>>
    /\ UNCHANGED <<fsm_vars, swap_vars, dyn_vars, spsc_vars>>

Is_Empty_Call(me) ==
    /\ rb_call' = RbCall("Ring_Buffer_Static_Is_Empty", me, FALSE, 0,
                         Ring_Buffer_Static_Is_Empty(me), <<>>)
    /\ UNCHANGED <<RB_Instances, RB_Instances_In_Use, Handle, shadow>>
    /\ UNCHANGED <<fsm_vars, swap_vars, dyn_vars, spsc_vars>>

Is_Full_Call(me) ==
    /\ rb_call' = RbCall("Ring_Buffer_Static_Is_Full", me, FALSE, 0,
                         Ring_Buffer_Static_Is_Full(me), <<>>)
    /\ UNCHANGED <<RB_Instances, RB_Instances_In_Use, Handle, shadow>>
    /\ UNCHANGED <<fsm_vars, swap_vars, dyn_vars, spsc_vars>>

\* The calls the application makes.
Ctor_Call ==
    \/ \E me \in DataHandles, element_size_0 \in 1..MaxElementSize,
          number_of_elements_0 \in 1..MaxElements :
           Ring_Buffer_Static_Ctor(me, element_size_0, number_of_elements_0)
    \/ \E me \in DataHandles : Ring_Buffer_Static_Ctor(me, 0, 1)
    \/ \E me \in DataHandles : Ring_Buffer_Static_Ctor(me, 1, 0)
    \/ Ring_Buffer_Static_Ctor(NULL, 1, 1)

Destroy_Call == \E me \in DataHandles \cup {NULL} : Ring_Buffer_Static_Destroy(me)

Clear_Call == \E me \in DataHandles \cup {NULL} : Ring_Buffer_Static_Clear(me)

Write_Call ==
    \/ \E me \in DataHandles, data_size \in 0..MaxElementSize :
           \E data \in {NullData} \cup {Data(Element(v, data_size)) : v \in ElementValues} :
               Ring_Buffer_Static_Write(me, data, data_size)
    \/ Ring_Buffer_Static_Write(NULL, Data(Element(1, 1)), 1)

Read_Call ==
    \/ \E me \in DataHandles, data_null \in BOOLEAN, data_size \in 0..MaxElementSize :
           Ring_Buffer_Static_Read(me, data_null, data_size)
    \/ Ring_Buffer_Static_Read(NULL, FALSE, 1)

\* ------------------------------------------------------------------------
\* byte_swap.h
\* ------------------------------------------------------------------------

\* The byte order of the target the code is built for (endian_format.h).
CPU_Endianness == {"CPU_LITTLE_ENDIAN", "CPU_BIG_ENDIAN"}

\* A uint32_t is kept as its two 16-bit halves.  The bytes of a uint16_t and
\* of a uint32_t object in memory, at increasing addresses, and the value of
\* the object that has these bytes.
Object16(val, cpu) ==
    IF cpu = "CPU_LITTLE_ENDIAN" THEN <<val % 256, val \div 256>>
                                 ELSE <<val \div 256, val % 256>>

Value16(bytes, cpu) ==
    IF cpu = "CPU_LITTLE_ENDIAN" THEN bytes[1] + 256 * bytes[2]
                                 ELSE 256 * bytes[1] + bytes[2]

Object32(val, cpu) ==
    IF cpu = "CPU_LITTLE_ENDIAN"
    THEN <<val.lo % 256, val.lo \div 256, val.hi % 256, val.hi \div 256>>
    ELSE <<val.hi \div 256, val.hi % 256, val.lo \div 256, val.lo % 256>>

Value32(bytes, cpu) ==
    IF cpu = "CPU_LITTLE_ENDIAN"
    THEN [hi |-> bytes[3] + 256 * bytes[4], lo |-> bytes[1] + 256 * bytes[2]]
    ELSE [hi |-> 256 * bytes[1] + bytes[2], lo |-> 256 * bytes[3] + bytes[4]]

\* (uint16_t)((((x) & 0xFF00) >> 8) | (((x) & 0x00FF) << 8))
SWAP16_COMPILETIME(x) == (((x \div 256) % 256) + ((x % 256) * 256)) % Half

\* (uint32_t)((((x) & 0xFF000000UL) >> 24UL) | (((x) & 0x00FF0000UL) >> 8UL) |
\*            (((x) & 0x0000FF00UL) << 8UL) | (((x) & 0x000000FFUL) << 24UL))
SWAP32_COMPILETIME(x) ==
    [hi |-> ((x.lo % 256) * 256) + (x.lo \div 256),
     lo |-> ((x.hi % 256) * 256) + (x.hi \div 256)]

\* Faulty variant: the second byte is copied and not exchanged.
Swap16_RunTime_Copy(val, cpu) ==
    LET copy == Object16(val, cpu)
        c1 == [copy EXCEPT ![1] = copy[2]]
    IN  Value16(c1, cpu)

\* Lines 74-80: the two bytes of copy are exchanged through temp.
Swap16_RunTime(val, cpu) ==
    LET copy == Object16(val, cpu)
        temp == copy[1]
        c1 == [copy EXCEPT ![1] = copy[2]]
        c2 == [c1 EXCEPT ![2] = temp]
    IN  Value16(c2, cpu)

\* Lines 101-111: bytes 0 and 3, then bytes 1 and 2, are exchanged.
Swap32_RunTime(val, cpu) ==
    LET copy == Object32(val, cpu)
        temp == copy[4]
        c1 == [copy EXCEPT ![4] = copy[1]]
        c2 == [c1 EXCEPT ![1] = temp]
        temp_2 == c2[3]
        c3 == [c2 EXCEPT ![3] = c2[2]]
        c4 == [c3 EXCEPT ![2] = temp_2]
    IN  Value32(c4, cpu)

\* The values the application swaps: every uint16_t, and the uint32_t made
\* of the bytes SwapBytes.
SwapBytes == {0, 1, 18, 52, 86, 120, 127, 128, 255}
SwapValues16 == 0..(Half - 1)
SwapValues32 ==
    {[hi |-> 256 * b3 + b2, lo |-> 256 * b1 + b0] : b3 \in SwapBytes, b2 \in SwapBytes,
                                                    b1 \in SwapBytes, b0 \in SwapBytes}

NoSwap(bits, val, cpu) ==
    [op |-> "none", bits |-> bits, cpu |-> cpu, val |-> val,
     run_time |-> val, compile_time |-> val]

\* uint16_t r = Swap16_RunTime(val), c = SWAP16_COMPILETIME(val);
Swap16_Call ==
    /\ swap.op = "none" /\ swap.bits = 16
    /\ swap' = [swap EXCEPT !.op = "Swap16",
                            !.run_time = Swap16_RunTime(swap.val, swap.cpu),
                            !.compile_time = SWAP16_COMPILETIME(swap.val)]
    /\ UNCHANGED <<fsm_vars, ring_vars, dyn_vars, spsc_vars>>

\* uint32_t r = Swap32_RunTime(val), c = SWAP32_COMPILETIME(val);
Swap32_Call ==
    /\ swap.op = "none" /\ swap.bits = 32
    /\ swap' = [swap EXCEPT !.op = "Swap32",
                            !.run_time = Swap32_RunTime(swap.val, swap.cpu),
                            !.compile_time = SWAP32_COMPILETIME(swap.val)]
    /\ UNCHANGED <<fsm_vars, ring_vars, dyn_vars, spsc_vars>>

Swap_Unused == swap = NoSwap(16, 0, "CPU_LITTLE_ENDIAN")

\* ------------------------------------------------------------------------
\* ir_ring_buffer_dynamic.c
\* ------------------------------------------------------------------------

\* The addresses malloc() can return for a struct Ring_Buffer_t, and a
\* pointer value that is none of them and not NULL.
DynAddresses == {"a1", "a2"}
WILD == "WILD"

\* What the Ring_Buffer_Dynamic_Handle of the application holds: NULL, or
\* what its memory happened to hold when it was defined without initialiser.
DynHandleValues == {NULL, WILD} \cup DynAddresses

\* The arguments the application passes to Ring_Buffer_Dynamic_Ctor.
DynElementSizes == 0..MaxElementSize
DynNumbersOfElements == 0..(MaxElements + 1)

\* malloc(): NULL, or the address of a block that is not in use.
Malloc == {NULL} \cup (DynAddresses \ DOMAIN heap)

\* Lines 52-56, with me->buffer kept in the object; the block of the buffer
\* is never read before it is written.
Ring_Buffer_Dynamic_t(element_size_0, number_of_elements_0) ==
    [buffer |-> ZeroedBuffer, head |-> 0, tail |-> 0,
     element_size |-> element_size_0,
     capacity |-> element_size_0 * number_of_elements_0, is_empty |-> TRUE]

\* Line 37; the product of the arguments of the model is below SIZE_MAX.
Ring_Buffer_Dynamic_Ctor_Check(element_size_0, number_of_elements_0) ==
    element_size_0 # 0 /\ number_of_elements_0 > 1

\* me points to a struct Ring_Buffer_t obtained from malloc() and not freed.
Dyn_Live(me) == me \in DOMAIN heap

Ring_Buffer_Dynamic_Is_Empty(me) ==
    IF me # NULL THEN heap[me].is_empty ELSE FALSE

Ring_Buffer_Dynamic_Is_Full(me) ==
    IF me # NULL THEN (heap[me].head = heap[me].tail) /\ ~heap[me].is_empty ELSE TRUE

\* The calls made in a row on the Handle since a constructor call that
\* returned true: the constructor, then a Write of valid data of the size
\* given to the constructor, then a Read of that size.
NoChain == [stage |-> "none", element_size |-> 0, data |-> <<>>]

DynCall(op, me, data_null, data_size, success, data, chain) ==
    [op |-> op, me |-> me, data_null |-> data_null, data_size |-> data_size,
     success |-> success, data |-> data, chain |-> chain,
     allocated |-> NULL, crashed |-> FALSE]

NoDynCall == DynCall("none", NULL, FALSE, 0, FALSE, <<>>, NoChain)

\* The call dereferences a pointer that is neither NULL nor the address of
\* a live object: the program stops there, or the call comes back with
\* whatever it found at that address.
Dyn_Undefined(op, me, data_null, data_size, data, chain) ==
    /\ \E crashed \in BOOLEAN, success \in BOOLEAN :
          dyn_call' = [DynCall(op, me, data_null, data_size, success, data, chain)
                          EXCEPT !.crashed = crashed]
    /\ UNCHANGED heap

\* Lines 39-56: the heap with the new object in it.
Dyn_Allocated(object, address) == heap @@ (address :> object)

\* Line 39: me = malloc(...) assigns the parameter, a copy of the Handle of
\* the caller, which keeps its value.
Dyn_Ctor_Handle(me, address) == me

Ring_Buffer_Dynamic_Ctor(me, element_size_0, number_of_elements_0) ==
    /\ ~dyn_call.crashed
    /\ \E address \in Malloc, buffer_allocated \in BOOLEAN :
          LET success == /\ Ring_Buffer_Dynamic_Ctor_Check(element_size_0, number_of_elements_0)
                         /\ address # NULL /\ buffer_allocated
              chain == IF success
                       THEN [NoChain EXCEPT !.stage = "constructed",
                                            !.element_size = element_size_0]
                       ELSE NoChain
          IN  /\ heap' = IF success
                         THEN Dyn_Allocated(Ring_Buffer_Dynamic_t(element_size_0,
                                                                  number_of_elements_0),
                                            address)
                         ELSE heap
              /\ dyn_handle' = IF success THEN Dyn_Ctor_Handle(me, address) ELSE me
              /\ dyn_call' = [DynCall("Ctor", me, FALSE, 0, success, <<>>, chain)
                                 EXCEPT !.allocated = IF success THEN address ELSE NULL]
    /\ UNCHANGED <<fsm_vars, ring_vars, swap_vars, spsc_vars>>

\* Lines 68-72.
Ring_Buffer_Dynamic_Destroy(me) ==
    /\ ~dyn_call.crashed
    /\ IF me = NULL
       THEN /\ dyn_call' = DynCall("Destroy", me, FALSE, 0, FALSE, <<>>, NoChain)
            /\ UNCHANGED heap
       ELSE IF ~Dyn_Live(me)
       THEN Dyn_Undefined("Destroy", me, FALSE, 0, <<>>, NoChain)
       ELSE /\ heap' = [a \in DOMAIN heap \ {me} |-> heap[a]]
            /\ dyn_call' = DynCall("Destroy", me, FALSE, 0, TRUE, <<>>, NoChain)
    /\ UNCHANGED dyn_handle
    /\ UNCHANGED <<fsm_vars, ring_vars, swap_vars, spsc_vars>>

\* Line 81 (me->buffer is not NULL in a live object).
Ring_Buffer_Dynamic_Write_Check(me, data, data_size) ==
    /\ me # NULL
    /\ ~Ring_Buffer_Dynamic_Is_Full(me)
    /\ ~data.is_null
    /\ data_size = heap[me].element_size

\* Lines 83-86.
Ring_Buffer_Dynamic_Written(rb, data, data_size) ==
    [rb EXCEPT !.buffer = Memcpy_In(rb.buffer, rb.head, data.bytes, data_size),
               !.head = (rb.head + data_size) % rb.capacity,
               !.is_empty = FALSE]

Dyn_Write_Chain(data, data_size) ==
    IF /\ dyn_call.chain.stage = "constructed"
       /\ ~data.is_null /\ data_size = dyn_call.chain.element_size
    THEN [dyn_call.chain EXCEPT !.stage = "written", !.data = data.bytes]
    ELSE NoChain

Ring_Buffer_Dynamic_Write(me, data, data_size) ==
    /\ ~dyn_call.crashed
    /\ LET chain == Dyn_Write_Chain(data, data_size) IN
       IF me # NULL /\ ~Dyn_Live(me)
       THEN Dyn_Undefined("Write", me, data.is_null, data_size, data.bytes, chain)
       ELSE LET success == Ring_Buffer_Dynamic_Write_Check(me, data, data_size) IN
            /\ heap' = IF success
                       THEN [heap EXCEPT ![me] = Ring_Buffer_Dynamic_Written(@, data, data_size)]
                       ELSE heap
            /\ dyn_call' = DynCall("Write", me, data.is_null, data_size, success,
                                   data.bytes, chain)
    /\ UNCHANGED dyn_handle
    /\ UNCHANGED <<fsm_vars, ring_vars, swap_vars, spsc_vars>>

\* Line 98.
Ring_Buffer_Dynamic_Read_Check(me, data_null, data_size) ==
    /\ me # NULL
    /\ ~Ring_Buffer_Dynamic_Is_Empty(me)
    /\ ~data_null
    /\ data_size = heap[me].element_size

\* Lines 101-106.
Ring_Buffer_Dynamic_Read_Done(rb, data_size) ==
    LET tail == (rb.tail + data_size) % rb.capacity IN
    [rb EXCEPT !.tail = tail,
               !.is_empty = IF rb.head = tail THEN TRUE ELSE @]

Dyn_Read_Chain(data_null, data_size) ==
    IF /\ dyn_call.chain.stage = "written"
       /\ ~data_null /\ data_size = dyn_call.chain.element_size
    THEN [dyn_call.chain EXCEPT !.stage = "read"]
    ELSE NoChain

Ring_Buffer_Dynamic_Read(me, data_null, data_size) ==
    /\ ~dyn_call.crashed
    /\ LET chain == Dyn_Read_Chain(data_null, data_size) IN
       IF me # NULL /\ ~Dyn_Live(me)
       THEN Dyn_Undefined("Read", me, data_null, data_size, <<>>, chain)
       ELSE LET success == Ring_Buffer_Dynamic_Read_Check(me, data_null, data_size) IN
            /\ heap' = IF success
                       THEN [heap EXCEPT ![me] = Ring_Buffer_Dynamic_Read_Done(@, data_size)]
                       ELSE heap
            /\ dyn_call' = DynCall("Read", me, data_null, data_size, success,
                                   IF success
                                   THEN Memcpy_Out(heap[me].buffer, heap[me].tail, data_size)
                                   ELSE <<>>,
                                   chain)
    /\ UNCHANGED dyn_handle
    /\ UNCHANGED <<fsm_vars, ring_vars, swap_vars, spsc_vars>>

\* The application of the dynamic Ring Buffer: every call goes through its
\* one Handle.
Dyn_Ctor_Call ==
    \E element_size_0 \in DynElementSizes, number_of_elements_0 \in DynNumbersOfElements :
        Ring_Buffer_Dynamic_Ctor(dyn_handle, element_size_0, number_of_elements_0)

Dyn_Destroy_Call == Ring_Buffer_Dynamic_Destroy(dyn_handle)

Dyn_Write_Call ==
    \E data_size \in 0..MaxElementSize :
        \E data \in {NullData} \cup {Data(Element(v, data_size)) : v \in ElementValues} :
            Ring_Buffer_Dynamic_Write(dyn_handle, data, data_size)

Dyn_Read_Call ==
    \E data_null \in BOOLEAN, data_size \in 0..MaxElementSize :
        Ring_Buffer_Dynamic_Read(dyn_handle, data_null, data_size)

Dyn_Unused ==
    /\ heap = <<>>
    /\ dyn_handle = NULL
    /\ dyn_call = NoDynCall

\* ------------------------------------------------------------------------
\* Ring_Buffer_Static_Write and Ring_Buffer_Static_Read, statement by
\* statement, called from two contexts on the same Handle
\* ------------------------------------------------------------------------

\* Number of elements the writing context has to write.
MaxWrites == 3

\* The Handle the two contexts share.
SpscHandle == "h1"

\* A context that is in none of the two functions.  accepted counts the
\* Writes that returned true, received has the data of the Reads that
\* returned true.
NoWrite == [pc |-> "idle", data |-> <<>>, data_size |-> 0, success |-> FALSE, accepted |-> 0]
NoRead == [pc |-> "idle", data |-> <<>>, data_size |-> 0, success |-> FALSE, received |-> <<>>]

Spsc_Frame == UNCHANGED <<fsm_vars, swap_vars, dyn_vars, RB_Instances_In_Use, Handle, rb_call, shadow>>

\* Line 225: the writing context calls Write with its next element and the
\* condition is evaluated.
Write_Line_225 ==
    /\ producer.pc = "idle"
    /\ producer.accepted < MaxWrites
    /\ \E data_size \in 1..MaxElementSize :
          LET data == Data(Element(producer.accepted + 1, data_size)) IN
          producer' = [producer EXCEPT
                          !.data = data.bytes,
                          !.data_size = data_size,
                          !.success = FALSE,
                          !.pc = IF Ring_Buffer_Static_Write_Check(SpscHandle, data, data_size)
                                 THEN "line_228" ELSE "idle"]
    /\ UNCHANGED <<RB_Instances, consumer>>
    /\ Spsc_Frame

\* Line 228: memcpy into the buffer at head.
Write_Line_228 ==
    /\ producer.pc = "line_228"
    /\ RB_Instances' =
          [RB_Instances EXCEPT ![Handle[SpscHandle]].buffer =
              Memcpy_In(@, RB_Instances[Handle[SpscHandle]].head, producer.data,
                        producer.data_size)]
    /\ producer' = [producer EXCEPT !.pc = "line_229"]
    /\ UNCHANGED consumer
    /\ Spsc_Frame

\* Line 229: head is advanced.
Write_Line_229 ==
    /\ producer.pc = "line_229"
    /\ RB_Instances' =
          [RB_Instances EXCEPT ![Handle[SpscHandle]].head =
              Write_Head(@, producer.data_size, RB_Instances[Handle[SpscHandle]].capacity)]
    /\ producer' = [producer EXCEPT !.pc = "line_230"]
    /\ UNCHANGED consumer
    /\ Spsc_Frame

\* Lines 230-234: is_empty = false, and Write returns true.
Write_Line_230 ==
    /\ producer.pc = "line_230"
    /\ RB_Instances' = [RB_Instances EXCEPT ![Handle[SpscHandle]].is_empty = FALSE]
    /\ producer' = [producer EXCEPT !.pc = "idle", !.success = TRUE,
                                    !.accepted = @ + 1]
    /\ UNCHANGED consumer
    /\ Spsc_Frame

\* Line 247: the reading context calls Read and the condition is evaluated.
Read_Line_247 ==
    /\ consumer.pc = "idle"
    /\ \E data_size \in 1..MaxElementSize :
          consumer' = [consumer EXCEPT
                          !.data = <<>>,
                          !.data_size = data_size,
                          !.success = FALSE,
                          !.pc = IF Ring_Buffer_Static_Read_Check(SpscHandle, FALSE, data_size)
                                 THEN "line_250" ELSE "idle"]
    /\ UNCHANGED <<RB_Instances, producer>>
    /\ Spsc_Frame

\* Line 250: memcpy out of the buffer at tail.
Read_Line_250 ==
    /\ consumer.pc = "line_250"
    /\ consumer' = [consumer EXCEPT
                        !.data = Memcpy_Out(RB_Instances[Handle[SpscHandle]].buffer,
                                            RB_Instances[Handle[SpscHandle]].tail,
                                            consumer.data_size),
                        !.pc = "line_251"]
    /\ UNCHANGED <<RB_Instances, producer>>
    /\ Spsc_Frame

\* Line 251: tail is advanced.
Read_Line_251 ==
    /\ consumer.pc = "line_251"
    /\ RB_Instances' =
          [RB_Instances EXCEPT ![Handle[SpscHandle]].tail =
              Read_Tail(@, consumer.data_size, RB_Instances[Handle[SpscHandle]].capacity)]
    /\ consumer' = [consumer EXCEPT !.pc = "line_253"]
    /\ UNCHANGED producer
    /\ Spsc_Frame

\* Line 253: head and tail are compared; lines 258-261 when they differ.
Read_Line_253 ==
    /\ consumer.pc = "line_253"
    /\ IF RB_Instances[Handle[SpscHandle]].head = RB_Instances[Handle[SpscHandle]].tail
       THEN consumer' = [consumer EXCEPT !.pc = "line_255"]
       ELSE consumer' = [consumer EXCEPT !.pc = "idle", !.success = TRUE,
                                         !.received = Append(@, consumer.data)]
    /\ UNCHANGED <<RB_Instances, producer>>
    /\ Spsc_Frame

\* Lines 255-261: is_empty = true, and Read returns true.
Read_Line_255 ==
    /\ consumer.pc = "line_255"
    /\ RB_Instances' = [RB_Instances EXCEPT ![Handle[SpscHandle]].is_empty = TRUE]
    /\ consumer' = [consumer EXCEPT !.pc = "idle", !.success = TRUE,
                                    !.received = Append(@, consumer.data)]
    /\ UNCHANGED producer
    /\ Spsc_Frame

\* The Ring Buffer is constructed before the two contexts use it.
Spsc_Ctor_Call ==
    /\ producer = NoWrite /\ consumer = NoRead
    /\ ~Is_Valid_Handle(SpscHandle)
    /\ \E element_size_0 \in 1..MaxElementSize, number_of_elements_0 \in 1..MaxElements :
          Ring_Buffer_Static_Ctor(SpscHandle, element_size_0, number_of_elements_0)

Spsc_Unused ==
    /\ producer = NoWrite
    /\ consumer = NoRead

\* No Ring Buffer is used by the application of the Fsm, and no Fsm by the
\* application of the Ring Buffers.
Ring_Unused ==
    /\ RB_Instances = [k \in PoolIndex |-> Ring_Buffer_t]
    /\ RB_Instances_In_Use = [k \in PoolIndex |-> FALSE]
    /\ Handle = [h \in HandleObjects |-> 0]
    /\ rb_call = NoCall
    /\ shadow = [h \in HandleObjects |-> NoShadow]

\* The Fsm object before Fsm_Ctor: its memory holds anything.
Fsm_Allocated(history) ==
    /\ state \in HandlerOrNull
    /\ max_state_transitions \in 0..MaxTransitions
    /\ pc = "allocated"
    /\ call = [op |-> "none", me |-> NULL, h |-> NULL, n |-> 0, e_null |-> FALSE,
               sig |-> 0, state0 |-> NULL, max0 |-> 0, first |-> TRUE]
    /\ status = FSM_ERROR_STATUS
    /\ prev_state = NULL
    /\ i = 0
    /\ log = <<>>
    /\ asserted = 0
    /\ begun = FALSE
    /\ run = history

Init ==
    /\ Fsm_Allocated(NoHistory)
    /\ Ring_Unused
    /\ Swap_Unused /\ Dyn_Unused /\ Spsc_Unused

Next ==
    \/ Fsm_Ctor
    \/ Fsm_Begin
    \/ Fsm_Begin_Init
    \/ Fsm_Begin_Entry
    \/ Fsm_Begin_Exit
    \/ Fsm_Dispatch
    \/ Fsm_Dispatch_Event
    \/ Fsm_Dispatch_Exit
    \/ Fsm_Dispatch_Entry

Spec == Init /\ [][Next]_vars

\* The same program, with the Entry and Exit Events paired up in the history.
InitPaired ==
    /\ Fsm_Allocated(PairedHistory)
    /\ Ring_Unused
    /\ Swap_Unused /\ Dyn_Unused /\ Spsc_Unused

SpecPaired == InitPaired /\ [][Next]_vars

\* The same program with State Handlers that terminate: a handler that has
\* been called comes back to the dispatcher, or ends in My_Assert_Handler().
HandlerStep ==
    \/ Fsm_Begin_Init
    \/ Fsm_Begin_Entry
    \/ Fsm_Begin_Exit
    \/ Fsm_Dispatch_Event
    \/ Fsm_Dispatch_Exit
    \/ Fsm_Dispatch_Entry

SpecFair == Init /\ [][Next]_vars /\ WF_vars(HandlerStep)

\* The pool as the program is loaded, and the Handle objects before any
\* constructor call.
Fsm_Unused ==
    /\ state = NULL
    /\ max_state_transitions = 0
    /\ pc = "unused"
    /\ call = [op |-> "none", me |-> NULL, h |-> NULL, n |-> 0, e_null |-> FALSE,
               sig |-> 0, state0 |-> NULL, max0 |-> 0, first |-> TRUE]
    /\ status = FSM_ERROR_STATUS
    /\ prev_state = NULL
    /\ i = 0
    /\ log = <<>>
    /\ asserted = 0
    /\ begun = FALSE
    /\ run = NoHistory

\* The pool after another part of the program constructed the Handles
\* owners among the Handle objects (each for one element of one byte, one
\* after the other), the other objects being before any constructor call.
Constructed_Before(objects, owners) ==
    LET order == CHOOSE f \in [owners -> 0..(Cardinality(owners) - 1)] :
                    \A a, b \in owners : a # b => f[a] # f[b]
        owner(k) == CHOOSE h \in owners : order[h] = k
    IN  /\ RB_Instances =
               [k \in PoolIndex |->
                   IF k < Cardinality(owners)
                   THEN [Ring_Buffer_t EXCEPT !.handle = owner(k), !.element_size = 1,
                                              !.capacity = 1, !.is_empty = TRUE]
                   ELSE Ring_Buffer_t]
        /\ RB_Instances_In_Use = [k \in PoolIndex |-> k < Cardinality(owners)]
        /\ \E garbage \in UninitializedHandleValues :
               Handle = [h \in objects |->
                            IF h \in owners THEN order[h] ELSE garbage]
        /\ shadow = [h \in objects |->
                        IF h \in owners
                        THEN CtorShadow(1, 1)
                        ELSE NoShadow]

InitRing ==
    /\ \E owners \in SUBSET (HandleObjects \ DataHandles) :
           Constructed_Before(HandleObjects, owners)
    /\ rb_call = NoCall
    /\ Fsm_Unused
    /\ Swap_Unused /\ Dyn_Unused /\ Spsc_Unused

NextRing ==
    \/ Ctor_Call
    \/ Destroy_Call
    \/ Clear_Call
    \/ Write_Call
    \/ Read_Call

SpecRing == InitRing /\ [][NextRing]_vars

\* The program with one Handle object more than the pool has Ring Buffers.
\* The application constructs and destroys the PoolActive Handles in any
\* order, for one element of one or of two bytes; the other Handles were
\* constructed, or not, before.
PoolHandles == {"p1", "p2", "p3", "p4", "p5"}
PoolActive == {"p1", "p2"}

InitPool ==
    /\ \E owners \in SUBSET (PoolHandles \ PoolActive) :
           Constructed_Before(PoolHandles, owners)
    /\ rb_call = NoCall
    /\ Fsm_Unused
    /\ Swap_Unused /\ Dyn_Unused /\ Spsc_Unused

Pool_Ctor_Call ==
    \E me \in PoolActive, element_size_0 \in {1, 2} :
        Ring_Buffer_Static_Ctor(me, element_size_0, 1)

Pool_Destroy_Call == \E me \in PoolActive : Ring_Buffer_Static_Destroy(me)

Pool_Clear_Call == \E me \in PoolActive : Ring_Buffer_Static_Clear(me)

Pool_Write_Call ==
    \E me \in PoolActive : Ring_Buffer_Static_Write(me, Data(Element(1, 1)), 1)

Pool_Read_Call == \E me \in PoolActive : Ring_Buffer_Static_Read(me, FALSE, 1)

Pool_Get_Number_Of_Elements_Call ==
    \E me \in PoolActive \cup {NULL} : Get_Number_Of_Elements_Call(me)

Pool_Is_Empty_Call == \E me \in PoolActive \cup {NULL} : Is_Empty_Call(me)

Pool_Is_Full_Call == \E me \in PoolActive \cup {NULL} : Is_Full_Call(me)

NextPool ==
    \/ Pool_Ctor_Call
    \/ Pool_Destroy_Call
    \/ Pool_Clear_Call
    \/ Pool_Write_Call
    \/ Pool_Read_Call
    \/ Pool_Get_Number_Of_Elements_Call
    \/ Pool_Is_Empty_Call
    \/ Pool_Is_Full_Call

SpecPool == InitPool /\ [][NextPool]_vars

\* The application that constructs and destroys one Handle with arguments of
\* the whole range of the constructor: 0, small sizes, the sizes around
\* RING_BUFFER_STATIC_SIZE, and sizes whose product passes 2^32
\* (2^16 * 2^16 = 2^32 and 641 * 6700417 = 2^32 + 1).
CtorSizes ==
    {0, 1, 2, RING_BUFFER_STATIC_SIZE \div 2 + 2,
     RING_BUFFER_STATIC_SIZE, RING_BUFFER_STATIC_SIZE + 1,
     641, 2^16, 6700417}

Size_Ctor_Call ==
    \/ \E me \in DataHandles, element_size_0 \in CtorSizes, number_of_elements_0 \in CtorSizes :
           Ring_Buffer_Static_Ctor(me, element_size_0, number_of_elements_0)
    \/ \E element_size_0 \in CtorSizes :
           Ring_Buffer_Static_Ctor(NULL, element_size_0, 1)

Size_Destroy_Call == \E me \in DataHandles : Ring_Buffer_Static_Destroy(me)

NextCtor ==
    \/ Size_Ctor_Call
    \/ Size_Destroy_Call

SpecCtor == InitRing /\ [][NextCtor]_vars

\* The application that constructs the PoolActive Handles, no Handle being
\* constructed before, with arguments whose product passes 2^32
\* (4 * (2^30 + 1) = 2^32 + 4 and 641 * 6700417 = 2^32 + 1), and then
\* writes and reads elements of these sizes until a call stops the program.
OverrunArguments == {<<4, 1073741825>>, <<641, 6700417>>}
OverrunSizes == {arguments[1] : arguments \in OverrunArguments}
OverrunData(data_size) == Data([k \in 1..data_size |-> 1 + (k % 255)])

Overrun_Ctor_Call ==
    /\ ~rb_call.crashed
    /\ \E me \in PoolActive, arguments \in OverrunArguments :
          Ring_Buffer_Static_Ctor(me, arguments[1], arguments[2])

Overrun_Write_Call ==
    /\ ~rb_call.crashed
    /\ \E me \in PoolActive, data_size \in OverrunSizes :
          Ring_Buffer_Static_Write(me, OverrunData(data_size), data_size)

Overrun_Read_Call ==
    /\ ~rb_call.crashed
    /\ \E me \in PoolActive, data_size \in OverrunSizes :
          Ring_Buffer_Static_Read(me, FALSE, data_size)

InitOverrun ==
    /\ Constructed_Before(PoolActive, {})
    /\ rb_call = NoCall
    /\ Fsm_Unused
    /\ Swap_Unused /\ Dyn_Unused /\ Spsc_Unused

NextOverrun ==
    \/ Overrun_Ctor_Call
    \/ Overrun_Write_Call
    \/ Overrun_Read_Call

SpecOverrun == InitOverrun /\ [][NextOverrun]_vars

\* The application of byte_swap.h: one value, swapped both ways on a target
\* of either byte order.
InitSwap ==
    /\ \E cpu \in CPU_Endianness :
          \/ \E val \in SwapValues16 : swap = NoSwap(16, val, cpu)
          \/ \E val \in SwapValues32 : swap = NoSwap(32, val, cpu)
    /\ Fsm_Unused /\ Ring_Unused /\ Dyn_Unused /\ Spsc_Unused

NextSwap ==
    \/ Swap16_Call
    \/ Swap32_Call

SpecSwap == InitSwap /\ [][NextSwap]_vars

\* The application of the dynamic Ring Buffer, its Handle holding anything
\* before the first call.
InitDyn ==
    /\ heap = <<>>
    /\ dyn_handle \in DynHandleValues
    /\ dyn_call = NoDynCall
    /\ Fsm_Unused /\ Ring_Unused /\ Swap_Unused /\ Spsc_Unused

NextDyn ==
    \/ Dyn_Ctor_Call
    \/ Dyn_Destroy_Call
    \/ Dyn_Write_Call
    \/ Dyn_Read_Call

SpecDyn == InitDyn /\ [][NextDyn]_vars

\* The application of two contexts: one writes, the other one reads, and
\* the statements of the two calls interleave.
NextSpsc ==
    \/ Spsc_Ctor_Call
    \/ Write_Line_225
    \/ Write_Line_228
    \/ Write_Line_229
    \/ Write_Line_230
    \/ Read_Line_247
    \/ Read_Line_250
    \/ Read_Line_251
    \/ Read_Line_253
    \/ Read_Line_255

SpecSpsc == InitRing /\ [][NextSpsc]_vars

\* ------------------------------------------------------------------------
\* Properties
\* ------------------------------------------------------------------------

\* The call in progress, or the last one made, and how it ended.
InBegin == call.op = "Fsm_Begin"
InDispatch == call.op = "Fsm_Dispatch"
ReturnedNormally == pc = "idle"
Fatal == pc = "fatal"

\* The last handler call of the log.
Last == log[Len(log)]

\* Number of transitions of the chain: FSM_TRAN_STATUS returned to the Init
\* Event, the dispatched Event or an Entry Event.
TranCount ==
    Cardinality({k \in 1..Len(log) :
                    log[k].sig # EXIT_EVENT /\ log[k].ret = FSM_TRAN_STATUS})

\* Every handler of the log came back with a Status its caller accepts.
CleanLog ==
    \A k \in 1..Len(log) :
        IF log[k].sig = EXIT_EVENT
        THEN log[k].ret \in {FSM_HANDLED_STATUS, FSM_IGNORED_STATUS}
        ELSE log[k].ret \in {FSM_TRAN_STATUS, FSM_HANDLED_STATUS, FSM_IGNORED_STATUS}

\* Fsm_Dispatch was called with arguments that pass its entry assertions.
ValidDispatch ==
    /\ InDispatch /\ call.me # NULL /\ ~call.e_null
    /\ call.max0 # 0 /\ call.state0 # NULL /\ call.sig >= USER_SIG

\* C1: a Fsm_Dispatch whose chain has k transitions returns normally when
\* k <= max_state_transitions (the handlers never returning a rejected
\* Status), and ends in My_Assert_Handler(), called once and followed by no
\* handler call, when k = max_state_transitions + 1.
C1_ChainBound ==
    ValidDispatch =>
        /\ (Fatal /\ CleanLog) => TranCount > max_state_transitions
        /\ TranCount = max_state_transitions + 1 =>
              /\ Fatal /\ asserted = 1
              /\ Last.sig # EXIT_EVENT /\ Last.ret = FSM_TRAN_STATUS

\* C2: when Fsm_Begin or Fsm_Dispatch returns normally the last handler the
\* dispatcher called did not return FSM_TRAN_STATUS, and after a transition
\* the State me->state points to is the one that got the last Entry Event.
C2_CascadeResolved ==
    ((InBegin \/ InDispatch) /\ ReturnedNormally /\ Len(log) > 0) =>
        /\ Last.ret # FSM_TRAN_STATUS
        /\ TranCount > 0 => (Last.sig = ENTRY_EVENT /\ Last.h = state)

\* C3: after Fsm_Ctor with valid arguments me->state is the handler passed,
\* me->max_state_transitions is the bound passed, and no handler was called.
C3_CtorStoresArguments ==
    (call.op = "Fsm_Ctor" /\ ReturnedNormally) =>
        /\ state = call.h
        /\ max_state_transitions = call.n
        /\ log = <<>>

\* C4: in a Fsm_Dispatch whose dispatched handler returns FSM_TRAN_STATUS the
\* handler calls that follow alternate Exit, Entry, Exit, Entry, ...: every
\* Exit Event goes to the State that has just transitioned, every Entry Event
\* to the target of that transition, right after the Exit Event.  A chain
\* within the bound that returns normally has had one Exit and one Entry per
\* transition and ends in the State entered last (A -> B -> C: Exit(A),
\* Entry(B), Exit(B), Entry(C), me->state = C).
C4_ExitEntryAlternation ==
    (InDispatch /\ Len(log) >= 1 /\ log[1].ret = FSM_TRAN_STATUS) =>
        /\ \A k \in 2..Len(log) :
              IF k % 2 = 0
              THEN /\ log[k].sig = EXIT_EVENT
                   /\ log[k - 1].ret = FSM_TRAN_STATUS
                   /\ log[k].h = log[k - 1].h
              ELSE /\ log[k].sig = ENTRY_EVENT
                   /\ log[k - 1].sig = EXIT_EVENT
                   /\ log[k].h = log[k - 2].target
        /\ (ReturnedNormally /\ TranCount <= max_state_transitions) =>
              /\ Len(log) = 1 + 2 * TranCount
              /\ Last.sig = ENTRY_EVENT
              /\ Last.h = state

C4_Witness ==
    /\ InDispatch /\ ReturnedNormally /\ state = "C"
    /\ Len(log) = 5
    /\ log[1].h = "A" /\ log[1].sig = USER_SIG /\ log[1].target = "B"
    /\ log[2].h = "A" /\ log[2].sig = EXIT_EVENT
    /\ log[3].h = "B" /\ log[3].sig = ENTRY_EVENT /\ log[3].target = "C"
    /\ log[4].h = "B" /\ log[4].sig = EXIT_EVENT
    /\ log[5].h = "C" /\ log[5].sig = ENTRY_EVENT /\ log[5].ret = FSM_HANDLED_STATUS

\* C5: a Fsm_Begin whose initial handler transitions to another State A, with
\* Entry(A) returning FSM_HANDLED_STATUS or FSM_IGNORED_STATUS, calls exactly
\* two handlers: the initial handler with the Init Event, then A with the
\* Entry Event.  The initial handler gets no Exit or Entry Event and
\* Fsm_Begin returns with me->state = A.
C5_BeginInitThenEntry ==
    (/\ InBegin /\ Len(log) >= 2
     /\ log[1].ret = FSM_TRAN_STATUS /\ log[1].target # log[1].h
     /\ log[2].ret \in {FSM_HANDLED_STATUS, FSM_IGNORED_STATUS}) =>
        /\ Len(log) = 2
        /\ log[1].sig = INIT_EVENT /\ log[1].h = call.state0
        /\ log[2].sig = ENTRY_EVENT /\ log[2].h = log[1].target
        /\ ReturnedNormally /\ asserted = 0
        /\ state = log[1].target

C5_Witness ==
    /\ InBegin /\ ReturnedNormally /\ call.state0 = "INITIAL" /\ state = "A"
    /\ Len(log) = 2 /\ log[1].target = "A" /\ log[2].ret = FSM_IGNORED_STATUS

\* C6: in Fsm_Begin and in Fsm_Dispatch an Exit Event answered with
\* FSM_TRAN_STATUS or FSM_ERROR_STATUS is the last handler call: the
\* dispatcher goes to My_Assert_Handler() and the Entry Event of the State
\* transitioned into is not sent.
C6_ExitRejectsTranAndError ==
    \A k \in 1..Len(log) :
        (log[k].sig = EXIT_EVENT /\ log[k].ret \in {FSM_TRAN_STATUS, FSM_ERROR_STATUS}) =>
            /\ k = Len(log)
            /\ Fatal /\ asserted = 1

C6_Witness ==
    /\ Len(log) >= 2 /\ Fatal
    /\ Last.sig = EXIT_EVENT /\ Last.ret = FSM_TRAN_STATUS
    /\ log[Len(log) - 1].ret = FSM_TRAN_STATUS

\* C7: Fsm_Dispatch of an Event with a reserved Signal (below USER_SIG) goes
\* to My_Assert_Handler() before any handler is called and leaves me->state
\* as it was.
C7_ReservedSignalRejected ==
    (InDispatch /\ call.sig \in Reserved_Signals) =>
        /\ Fatal /\ asserted = 1
        /\ log = <<>>
        /\ state = call.state0

C7_Witness ==
    /\ InDispatch /\ call.sig = ENTRY_EVENT
    /\ call.me # NULL /\ ~call.e_null /\ call.max0 # 0 /\ call.state0 # NULL
    /\ Fatal /\ log = <<>>

\* C8 as stated: a Fsm_Dispatch of an Event with Signal IDLE_EVENT, otherwise
\* valid, is not stopped by My_Assert_Handler() before the Event reaches the
\* handler of the current State.
C8_IdleDelivered ==
    (/\ InDispatch /\ call.sig = IDLE_EVENT
     /\ call.me # NULL /\ ~call.e_null /\ call.max0 # 0 /\ call.state0 # NULL) =>
        ~(Fatal /\ log = <<>>)

\* C8 as amended: Fsm_Dispatch of an Event with Signal IDLE_EVENT goes to
\* My_Assert_Handler() and the Event reaches no handler.
C8_IdleRejected ==
    (InDispatch /\ call.sig = IDLE_EVENT) =>
        /\ Fatal /\ asserted = 1
        /\ \A k \in 1..Len(log) : log[k].sig # IDLE_EVENT

C8_Witness ==
    /\ InDispatch /\ call.sig = IDLE_EVENT
    /\ call.me # NULL /\ ~call.e_null /\ call.max0 # 0 /\ call.state0 # NULL
    /\ Fatal /\ log = <<>>

\* C9: a Fsm_Dispatch of a Signal from USER_SIG on, answered by the current
\* State with FSM_HANDLED_STATUS or FSM_IGNORED_STATUS, returns normally with
\* me->state unchanged after that single handler call: no Exit or Entry
\* Event is sent.
C9_HandledLeavesState ==
    (/\ InDispatch /\ Len(log) >= 1
     /\ log[1].ret \in {FSM_HANDLED_STATUS, FSM_IGNORED_STATUS}) =>
        /\ Len(log) = 1
        /\ log[1].sig = call.sig /\ call.sig >= USER_SIG
        /\ log[1].h = call.state0
        /\ state = call.state0
        /\ ReturnedNormally /\ asserted = 0

C9_Witness ==
    /\ InDispatch /\ begun /\ call.sig = APP_SIG /\ call.state0 = "B"
    /\ Len(log) = 1 /\ log[1].ret = FSM_IGNORED_STATUS
    /\ ReturnedNormally /\ state = "B"

\* C10: FSM_ERROR_STATUS returned to the dispatched Event or to an Entry
\* Event (or to the Init Event) ends the call in My_Assert_Handler(): no
\* handler is called after it and me->state stays the State that returned it.
C10_ErrorIsFatal ==
    \A k \in 1..Len(log) :
        (log[k].sig # EXIT_EVENT /\ log[k].ret = FSM_ERROR_STATUS) =>
            /\ k = Len(log)
            /\ Fatal /\ asserted = 1
            /\ state = log[k].h

C10_WitnessDispatched ==
    /\ InDispatch /\ call.sig = APP_SIG /\ call.state0 = "C"
    /\ Len(log) = 1 /\ log[1].ret = FSM_ERROR_STATUS
    /\ Fatal /\ state = "C"

\* Number of Entry Events sent by the call.
EntryCount == Cardinality({k \in 1..Len(log) : log[k].sig = ENTRY_EVENT})

\* C11: in Fsm_Begin a Status other than FSM_TRAN_STATUS returned to the Init
\* Event ends the call in My_Assert_Handler(); no Entry Event is sent.
C11_InitMustTransition ==
    (/\ InBegin /\ Len(log) >= 1
     /\ log[1].ret \in {FSM_HANDLED_STATUS, FSM_IGNORED_STATUS, FSM_ERROR_STATUS}) =>
        /\ log[1].sig = INIT_EVENT
        /\ Len(log) = 1
        /\ Fatal /\ asserted = 1

C11_Witness ==
    /\ InBegin /\ call.first /\ Len(log) = 1
    /\ log[1].sig = INIT_EVENT /\ log[1].ret = FSM_HANDLED_STATUS
    /\ Fatal

\* C12: Fsm_Begin on an object constructed with valid arguments is not
\* stopped before the initial handler runs, and when that handler makes one
\* transition, to a State whose Entry Event is handled or ignored, Fsm_Begin
\* returns normally with me->state not NULL and not the initial handler.
C12_BeginAfterValidCtor ==
    (InBegin /\ call.me # NULL /\ call.first) =>
        /\ ~(Fatal /\ log = <<>>)
        /\ (/\ Len(log) >= 2
            /\ log[1].ret = FSM_TRAN_STATUS /\ log[1].target # log[1].h
            /\ log[2].ret \in {FSM_HANDLED_STATUS, FSM_IGNORED_STATUS}) =>
              /\ ReturnedNormally
              /\ state # NULL /\ state # call.h

\* C13: no single call of Fsm_Begin or Fsm_Dispatch sends more Entry Events
\* than max_state_transitions.
C13_EntryBound ==
    (InBegin \/ InDispatch) => EntryCount <= max_state_transitions

\* C14 as stated: after a handler call the Exit/Entry cascade runs exactly
\* when me->state points to another handler than before the call; a handler
\* returning FSM_TRAN_STATUS with its own State as target gets no Exit Event.
C14_CascadeIffStateChanged ==
    (InDispatch /\ Len(log) >= 1 /\ log[1].ret # NO_RETURN) =>
        ((pc = "dispatch_exit" \/ Len(log) >= 2)
            <=> (log[1].ret = FSM_TRAN_STATUS /\ log[1].target # log[1].h))

\* C14 as amended: the cascade runs after the dispatched handler exactly when
\* it returned FSM_TRAN_STATUS, also when the target is its own State: that
\* State then gets the Exit Event and the Entry Event.
C14_CascadeIffTranStatus ==
    (InDispatch /\ Len(log) >= 1) =>
        /\ (pc = "dispatch_exit" \/ Len(log) >= 2) <=> log[1].ret = FSM_TRAN_STATUS
        /\ Len(log) >= 2 => (log[2].sig = EXIT_EVENT /\ log[2].h = log[1].h)
        /\ Len(log) >= 3 => (log[3].sig = ENTRY_EVENT /\ log[3].h = log[1].target)

C14_Witness ==
    /\ InDispatch /\ ReturnedNormally /\ Len(log) = 3
    /\ log[1].h = "A" /\ log[1].target = "A" /\ log[1].ret = FSM_TRAN_STATUS
    /\ log[2].h = "A" /\ log[2].sig = EXIT_EVENT
    /\ log[3].h = "A" /\ log[3].sig = ENTRY_EVENT /\ log[3].ret = FSM_HANDLED_STATUS

\* C15: once Fsm_Ctor has returned, me->state is never NULL; a handler that
\* calls FSM_TRAN with a NULL target ends in My_Assert_Handler() with
\* me->state as it was before the handler was called.
C15_StateNeverNull ==
    /\ (pc # "allocated" /\ ~(call.op = "Fsm_Ctor" /\ Fatal)) => state # NULL
    /\ \A k \in 1..Len(log) :
          log[k].ret = NO_RETURN =>
              /\ log[k].target = NULL
              /\ k = Len(log)
              /\ Fatal /\ asserted = 1
              /\ state = IF log[k].sig = EXIT_EVENT THEN log[k - 1].target ELSE log[k].h

C15_Witness ==
    /\ InDispatch /\ Fatal /\ Len(log) = 3
    /\ log[1].h = "A" /\ log[1].target = "B"
    /\ log[3].h = "B" /\ log[3].target = NULL /\ log[3].ret = NO_RETURN
    /\ state = "B"

\* C16: the Init Event is sent once in the life of the object: by Fsm_Begin,
\* as its first handler call, to me->state; when no handler was called before
\* Fsm_Begin that is the first handler call on the object and it goes to the
\* handler given to Fsm_Ctor.  Fsm_Dispatch never sends the Init Event.
C16_InitSentOnce ==
    /\ run.inits <= 1
    /\ run.inits = 1 <=> (begun /\ run.handler_called /\ (InBegin => Len(log) >= 1))
    /\ \A k \in 1..Len(log) :
          log[k].sig = INIT_EVENT <=> (InBegin /\ k = 1)
    /\ (InBegin /\ Len(log) >= 1) =>
          /\ log[1].h = call.state0
          /\ call.first => log[1].h = call.h

C16_Witness ==
    /\ InBegin /\ call.first /\ call.h = "INITIAL" /\ Len(log) = 2
    /\ log[1].sig = INIT_EVENT /\ log[1].h = "INITIAL" /\ ReturnedNormally

\* C17: Fsm_Ctor called with a NULL object, a NULL handler or a bound of 0
\* ends in My_Assert_Handler() and writes nothing to the object.
C17_CtorRejectsInvalid ==
    (call.op = "Fsm_Ctor" /\ (call.me = NULL \/ call.h = NULL \/ call.n = 0)) =>
        /\ Fatal /\ asserted = 1
        /\ state = call.state0
        /\ max_state_transitions = call.max0
        /\ log = <<>>

C17_Witness ==
    /\ call.op = "Fsm_Ctor" /\ call.me # NULL /\ call.h = "INITIAL" /\ call.n = 0
    /\ Fatal /\ state = call.state0

\* ------------------------------------------------------------------------
\* Properties of the static ring buffer
\* ------------------------------------------------------------------------
WriteCalled == rb_call.op = "Ring_Buffer_Static_Write"
ReadCalled == rb_call.op = "Ring_Buffer_Static_Read"

\* The last call was made on a valid Handle with non-NULL data of the size
\* of the elements of its Ring Buffer.
ValidDataCall ==
    /\ rb_call.valid0
    /\ ~rb_call.data_null
    /\ rb_call.data_size = rb_call.before.element_size

\* C18: every successful Read returns the oldest element that Write accepted
\* and Read has not returned yet (since the constructor or the last Clear),
\* so that the elements read are a prefix of the elements written, in the
\* same order and each one once, whatever the number of wrap-arounds.
C18_FifoOrder ==
    (ReadCalled /\ rb_call.success) =>
        /\ rb_call.valid0
        /\ rb_call.before.elements # <<>>
        /\ rb_call.data = Head(rb_call.before.elements)

\* A Read that hands back the older of two different elements and wraps the
\* tail back to the start of the buffer, the head having wrapped before.
C18_Witness ==
    /\ ReadCalled /\ rb_call.success
    /\ Len(rb_call.before.elements) >= 2
    /\ rb_call.before.elements[1] # rb_call.before.elements[2]
    /\ rb_call.before.element_size = 2
    /\ RB_Instances[Handle[rb_call.me]].tail = 0
    /\ RB_Instances[Handle[rb_call.me]].head = rb_call.before.element_size

\* C19: a Write with valid data and size on a valid Handle succeeds if and
\* only if fewer than number_of_elements_0 elements are stored, and a Write
\* that fails leaves the Ring Buffers as they were.
C19_Capacity ==
    /\ [](WriteCalled /\ ValidDataCall =>
            (rb_call.success <=>
                Len(rb_call.before.elements) < rb_call.before.number_of_elements))
    /\ [][rb_call'.op = "Ring_Buffer_Static_Write" /\ ~rb_call'.success =>
            UNCHANGED <<RB_Instances, RB_Instances_In_Use, Handle, shadow>>]_vars

\* The Write refused by a Ring Buffer that stores number_of_elements_0 = 2
\* elements of 2 bytes.
C19_Witness ==
    /\ WriteCalled /\ ValidDataCall /\ ~rb_call.success
    /\ rb_call.before.number_of_elements = 2
    /\ rb_call.before.element_size = 2
    /\ Len(rb_call.before.elements) = 2
    /\ Ring_Buffer_Static_Is_Full(rb_call.me)

\* C20: Ring_Buffer_Static_Get_Number_Of_Elements returns the number of
\* elements stored (accepted by Write and not yet returned by Read), and 0
\* for an empty Ring Buffer or an invalid Handle.
C20_CountsStoredElements ==
    /\ \A me \in HandleObjects :
          Ring_Buffer_Static_Get_Number_Of_Elements(me) = Len(shadow[me].elements)
    /\ Ring_Buffer_Static_Get_Number_Of_Elements(NULL) = 0

\* The Handle objects of the program, and those constructed and not
\* destroyed since, as the application knows them.
Objects == DOMAIN Handle
Constructed(h) == shadow[h].number_of_elements > 0
ConstructedHandles == {h \in Objects : Constructed(h)}

\* The last call, and the state of its Handle before it.
CtorCalled == rb_call.op = "Ring_Buffer_Static_Ctor"
ClearCalled == rb_call.op = "Ring_Buffer_Static_Clear"
DestroyCalled == rb_call.op = "Ring_Buffer_Static_Destroy"
WasConstructed == rb_call.before.number_of_elements > 0
WasDestroyed == rb_call.before.destroyed

\* The step is a call of the constructor with arguments it accepts.
ValidCtorStep ==
    /\ rb_call'.op = "Ring_Buffer_Static_Ctor"
    /\ rb_call'.me # NULL
    /\ rb_call'.element_size_0 > 0
    /\ rb_call'.number_of_elements_0 > 0
    /\ rb_call'.element_size_0 * rb_call'.number_of_elements_0 <= RING_BUFFER_STATIC_SIZE

\* C21: at most NUMBER_OF_STATIC_RING_BUFFERS Handles are valid at any time;
\* the constructor, called with valid arguments while that many are valid,
\* returns false; called on a Handle that is valid, it returns false and
\* leaves the Ring Buffers and the Handles as they were.
C21_PoolLimit ==
    /\ [](Cardinality(ConstructedHandles) <= NUMBER_OF_STATIC_RING_BUFFERS)
    /\ [](\A h \in Objects : Constructed(h) <=> Is_Valid_Handle(h))
    /\ [][(ValidCtorStep
            /\ Cardinality(ConstructedHandles) = NUMBER_OF_STATIC_RING_BUFFERS)
              => ~rb_call'.success]_vars
    /\ [][(rb_call'.op = "Ring_Buffer_Static_Ctor" /\ rb_call'.me # NULL
            /\ Constructed(rb_call'.me))
              => /\ ~rb_call'.success
                 /\ UNCHANGED <<RB_Instances, RB_Instances_In_Use, Handle, shadow>>]_vars

\* The constructor refused for a Handle never constructed, all the Ring
\* Buffers of the pool being reserved.
C21_Witness ==
    /\ CtorCalled /\ ~rb_call.success
    /\ rb_call.me # NULL /\ ~WasConstructed /\ ~WasDestroyed
    /\ Cardinality(ConstructedHandles) = NUMBER_OF_STATIC_RING_BUFFERS
    /\ \A k \in PoolIndex : RB_Instances_In_Use[k]

\* C22: from its successful Destroy to its next successful constructor call,
\* Destroy, Clear, Write and Read on a Handle return false, also when the
\* Ring Buffer it had is reserved by another Handle.
C22_DestroyedIsInvalid ==
    /\ (rb_call.op \in {"Ring_Buffer_Static_Destroy", "Ring_Buffer_Static_Clear",
                        "Ring_Buffer_Static_Write", "Ring_Buffer_Static_Read"}
         /\ WasDestroyed) => ~rb_call.success
    /\ \A h \in Objects : shadow[h].destroyed => ~Is_Valid_Handle(h)

\* The Write refused on a destroyed Handle whose Ring Buffer another Handle
\* has reserved since, for elements of the size written.
C22_Witness ==
    /\ WriteCalled /\ ~rb_call.success /\ WasDestroyed
    /\ Handle[rb_call.me] < NUMBER_OF_STATIC_RING_BUFFERS
    /\ RB_Instances_In_Use[Handle[rb_call.me]]
    /\ RB_Instances[Handle[rb_call.me]].handle \in PoolActive \ {rb_call.me}
    /\ RB_Instances[Handle[rb_call.me]].element_size = rb_call.data_size
    /\ RB_Instances[Handle[rb_call.me]].is_empty

\* C23: the constructor, called with valid arguments on a Handle that is not
\* valid, succeeds if and only if fewer than NUMBER_OF_STATIC_RING_BUFFERS
\* Handles are valid, so also after every Destroy of that Handle; the Ring
\* Buffer it reserves is empty.
C23_SlotReclaimed ==
    /\ [][(ValidCtorStep /\ ~Constructed(rb_call'.me))
              => (rb_call'.success <=>
                    Cardinality(ConstructedHandles) < NUMBER_OF_STATIC_RING_BUFFERS)]_vars
    /\ []((CtorCalled /\ rb_call.success)
              => /\ Is_Valid_Handle(rb_call.me)
                 /\ Ring_Buffer_Static_Is_Empty(rb_call.me)
                 /\ ~Ring_Buffer_Static_Is_Full(rb_call.me)
                 /\ RB_Instances[Handle[rb_call.me]].head = 0
                 /\ RB_Instances[Handle[rb_call.me]].tail = 0
                 /\ RB_Instances[Handle[rb_call.me]].buffer = ZeroedBuffer)

\* The constructor succeeding on a destroyed Handle, which takes the last
\* free Ring Buffer of the pool.
C23_Witness ==
    /\ CtorCalled /\ rb_call.success /\ WasDestroyed
    /\ Cardinality(ConstructedHandles) = NUMBER_OF_STATIC_RING_BUFFERS

\* C24: Clear returns true exactly when the Handle is valid; after a
\* successful Clear the Handle is valid, its Ring Buffer is empty with
\* head = tail = 0 and stores nothing (a Read fails and number_of_elements_0
\* Writes succeed again), and its element size and capacity are those of
\* the constructor call.
C24_Clear ==
    ClearCalled =>
        /\ rb_call.success <=> WasConstructed
        /\ rb_call.success <=> rb_call.valid0
        /\ rb_call.success =>
             /\ Is_Valid_Handle(rb_call.me)
             /\ Ring_Buffer_Static_Is_Empty(rb_call.me)
             /\ ~Ring_Buffer_Static_Is_Full(rb_call.me)
             /\ RB_Instances[Handle[rb_call.me]].head = 0
             /\ RB_Instances[Handle[rb_call.me]].tail = 0
             /\ RB_Instances[Handle[rb_call.me]].buffer = ZeroedBuffer
             /\ RB_Instances[Handle[rb_call.me]].element_size = rb_call.before.element_size
             /\ RB_Instances[Handle[rb_call.me]].capacity =
                    rb_call.before.element_size * rb_call.before.number_of_elements
             /\ shadow[rb_call.me] = [rb_call.before EXCEPT !.elements = <<>>]

\* The Clear of a full Ring Buffer of two elements.
C24_Witness ==
    /\ ClearCalled /\ rb_call.success
    /\ rb_call.before.number_of_elements = 2
    /\ Len(rb_call.before.elements) = 2

\* C26: a Read with valid data and size on a valid Handle succeeds if and
\* only if an element is stored, so exactly as many Reads succeed as there
\* are elements; a Read that fails writes nothing to the data of the caller
\* and leaves the Ring Buffers as they were.
C26_ReadEmpty ==
    /\ []((ReadCalled /\ ValidDataCall) =>
              (rb_call.success <=> rb_call.before.elements # <<>>))
    /\ []((ReadCalled /\ ~rb_call.success) => rb_call.data = <<>>)
    /\ [][(rb_call'.op = "Ring_Buffer_Static_Read" /\ ~rb_call'.success) =>
              UNCHANGED <<RB_Instances, RB_Instances_In_Use, Handle, shadow>>]_vars

\* The Read refused by a Ring Buffer of two elements that was emptied by as
\* many Reads as Writes, its tail not at the start.
C26_Witness ==
    /\ ReadCalled /\ ValidDataCall /\ ~rb_call.success
    /\ rb_call.before.number_of_elements = 2
    /\ RB_Instances[Handle[rb_call.me]].tail # 0
    /\ RB_Instances[Handle[rb_call.me]].buffer # ZeroedBuffer

\* The data pointer is NULL, or data_size is not the element size given to
\* the constructor.
InvalidData(c) == c.data_null \/ c.data_size # c.before.element_size

\* C27: Write and Read on a valid Handle return false and leave the Ring
\* Buffers as they were when the data pointer is NULL or data_size differs
\* from the element size, whatever the number of elements stored.
C27_InvalidData ==
    /\ [](((WriteCalled \/ ReadCalled) /\ rb_call.valid0 /\ InvalidData(rb_call))
              => ~rb_call.success)
    /\ [][(rb_call'.op \in {"Ring_Buffer_Static_Write", "Ring_Buffer_Static_Read"}
            /\ rb_call'.valid0 /\ InvalidData(rb_call'))
              => UNCHANGED <<RB_Instances, RB_Instances_In_Use, Handle, shadow>>]_vars

\* The Read of a wrong size refused by a Ring Buffer that stores an element
\* and is not full.
C27_Witness ==
    /\ ReadCalled /\ rb_call.valid0 /\ ~rb_call.success
    /\ ~rb_call.data_null
    /\ rb_call.data_size # rb_call.before.element_size
    /\ rb_call.data_size > 0
    /\ Len(rb_call.before.elements) = 1
    /\ rb_call.before.number_of_elements = 2

\* The Handle object whose address the Ring Buffer k holds.
Owner(k) == RB_Instances[k].handle

\* C28: every reserved Ring Buffer is owned by one Handle object, the one
\* whose constructor call reserved it, and free ones by none; no two Handle
\* objects are valid for the same Ring Buffer; a call through an object that
\* is not the owner fails, also when it holds the index of a reserved Ring
\* Buffer.
C28_ExclusiveOwnership ==
    /\ \A k \in PoolIndex :
          IF RB_Instances_In_Use[k]
          THEN /\ Owner(k) \in Objects
               /\ Constructed(Owner(k))
               /\ Handle[Owner(k)] = k
               /\ \A h \in Objects : Is_Valid_Handle(h) /\ Handle[h] = k => h = Owner(k)
          ELSE Owner(k) = NULL
    /\ \A h \in Objects : Is_Valid_Handle(h) => Constructed(h) /\ Owner(Handle[h]) = h
    /\ (rb_call.op \in {"Ring_Buffer_Static_Destroy", "Ring_Buffer_Static_Clear",
                        "Ring_Buffer_Static_Write", "Ring_Buffer_Static_Read"}
         /\ ~WasConstructed) => ~rb_call.success

\* The Clear refused through a Handle object that was never constructed and
\* holds the index of a Ring Buffer reserved by another object.
C28_Witness ==
    /\ ClearCalled /\ ~rb_call.success
    /\ rb_call.me # NULL /\ ~WasConstructed /\ ~WasDestroyed
    /\ Handle[rb_call.me] < NUMBER_OF_STATIC_RING_BUFFERS
    /\ RB_Instances_In_Use[Handle[rb_call.me]]
    /\ Owner(Handle[rb_call.me]) # rb_call.me

\* The last call was a status query, on a Handle that was not valid.
QueryCalled ==
    rb_call.op \in {"Ring_Buffer_Static_Get_Number_Of_Elements",
                    "Ring_Buffer_Static_Is_Empty", "Ring_Buffer_Static_Is_Full"}

\* C30: on a Handle that is not valid (NULL, never constructed, holding an
\* index outside of the pool, or destroyed) Is_Empty returns false, Is_Full
\* returns true and Get_Number_Of_Elements returns 0, and none of the three
\* changes a Ring Buffer or a Handle.
C30_QueryDefaults ==
    /\ [](\A me \in Objects \cup {NULL} :
             (me = NULL \/ ~Constructed(me)) =>
                /\ Ring_Buffer_Static_Is_Empty(me) = FALSE
                /\ Ring_Buffer_Static_Is_Full(me) = TRUE
                /\ Ring_Buffer_Static_Get_Number_Of_Elements(me) = 0)
    /\ []((QueryCalled /\ ~WasConstructed) =>
             /\ rb_call.op = "Ring_Buffer_Static_Is_Empty" => ~rb_call.success
             /\ rb_call.op = "Ring_Buffer_Static_Is_Full" => rb_call.success
             /\ rb_call.count = 0)
    /\ [][rb_call'.op \in {"Ring_Buffer_Static_Get_Number_Of_Elements",
                            "Ring_Buffer_Static_Is_Empty", "Ring_Buffer_Static_Is_Full"}
             => UNCHANGED <<RB_Instances, RB_Instances_In_Use, Handle, shadow>>]_vars

\* Is_Full asked of a destroyed Handle whose Ring Buffer another Handle has
\* reserved and not filled, while a Handle never constructed holds an index
\* outside of the pool.
C30_Witness ==
    /\ rb_call.op = "Ring_Buffer_Static_Is_Full" /\ rb_call.success
    /\ WasDestroyed /\ shadow[rb_call.me].destroyed
    /\ RB_Instances_In_Use[Handle[rb_call.me]]
    /\ RB_Instances[Handle[rb_call.me]].is_empty
    /\ \E h \in Objects : Handle[h] = NUMBER_OF_STATIC_RING_BUFFERS

\* element_size_0 * number_of_elements_0 > RING_BUFFER_STATIC_SIZE, for the
\* product of the two numbers.
Oversized(element_size_0, number_of_elements_0) ==
    /\ element_size_0 > 0
    /\ number_of_elements_0 > 0
    /\ \/ element_size_0 > RING_BUFFER_STATIC_SIZE
       \/ number_of_elements_0 > RING_BUFFER_STATIC_SIZE
       \/ element_size_0 * number_of_elements_0 > RING_BUFFER_STATIC_SIZE

\* The arguments the constructor has to refuse.
InvalidCtorArguments(c) ==
    \/ c.me = NULL
    \/ c.element_size_0 = 0
    \/ c.number_of_elements_0 = 0
    \/ Oversized(c.element_size_0, c.number_of_elements_0)

\* C25: the constructor returns false, reserves no Ring Buffer and leaves the
\* Handle as it was when the Handle pointer is NULL, element_size_0 is 0,
\* number_of_elements_0 is 0 or element_size_0 * number_of_elements_0 exceeds
\* RING_BUFFER_STATIC_SIZE; it succeeds for 1 x RING_BUFFER_STATIC_SIZE and
\* RING_BUFFER_STATIC_SIZE x 1 on a Handle that is not valid while a Ring
\* Buffer is free.
C25_CtorRejectsInvalidArguments ==
    /\ []((CtorCalled /\ InvalidCtorArguments(rb_call)) => ~rb_call.success)
    /\ [][(rb_call'.op = "Ring_Buffer_Static_Ctor" /\ InvalidCtorArguments(rb_call'))
              => UNCHANGED <<RB_Instances, RB_Instances_In_Use, Handle, shadow>>]_vars
    /\ [][(rb_call'.op = "Ring_Buffer_Static_Ctor" /\ rb_call'.me # NULL
            /\ ~Is_Valid_Handle(rb_call'.me) /\ Free_Instances # {}
            /\ <<rb_call'.element_size_0, rb_call'.number_of_elements_0>> \in
                  {<<1, RING_BUFFER_STATIC_SIZE>>, <<RING_BUFFER_STATIC_SIZE, 1>>})
              => rb_call'.success]_vars

\* C29: the constructor returns false whenever the product of element_size_0
\* and number_of_elements_0 exceeds RING_BUFFER_STATIC_SIZE, for arguments of
\* the whole range of their types, so that every reserved Ring Buffer has
\* 0 < capacity <= RING_BUFFER_STATIC_SIZE.
C29_NoOversizedBuffer ==
    /\ (CtorCalled /\ rb_call.success) =>
          ~Oversized(rb_call.element_size_0, rb_call.number_of_elements_0)
    /\ \A k \in PoolIndex :
          RB_Instances_In_Use[k] =>
             /\ 0 < RB_Instances[k].capacity
             /\ RB_Instances[k].capacity <= RING_BUFFER_STATIC_SIZE
\* ------------------------------------------------------------------------
\* Properties of the dispatcher over the life of the object
\* ------------------------------------------------------------------------

\* Fsm_Begin or Fsm_Dispatch is about to call a handler.
InHandlerCall ==
    pc \in {"begin_init", "begin_entry", "begin_exit",
            "dispatch_event", "dispatch_exit", "dispatch_entry"}

\* The dispatcher is about to send an Exit Event / an Entry Event.
BeforeExit == pc \in {"begin_exit", "dispatch_exit"}
BeforeEntry == pc \in {"begin_entry", "dispatch_entry"}

\* Fsm_Ctor, then Fsm_Begin, then Fsm_Dispatch calls only, none of which has
\* ended in My_Assert_Handler() so far.
OrderlyRun == run.paired /\ begun /\ ~run.dispatched_early /\ ~Fatal

\* C33: in a run of Fsm_Ctor, Fsm_Begin and Fsm_Dispatch calls that return
\* normally, an Exit Event only goes to a State that got an Entry Event and
\* no Exit Event since, and between two calls the current State, and no
\* other one, has got an Entry Event and no Exit Event since.
C33_EntryExitPaired ==
    /\ []((OrderlyRun /\ ReturnedNormally) => run.entered = {state})
    /\ [][(OrderlyRun /\ BeforeExit) => prev_state \in run.entered]_vars

\* C34: with handlers that terminate, every Fsm_Dispatch ends after at most
\* 1 + 2 * max_state_transitions handler calls and every Fsm_Begin after at
\* most 2 + 2 * max_state_transitions, by a normal return or in
\* My_Assert_Handler(), whatever the handlers transition to.
C34_BoundedTermination ==
    /\ [](InDispatch => Len(log) <= 1 + 2 * call.max0)
    /\ [](InBegin => Len(log) <= 2 + 2 * call.max0)
    /\ (InHandlerCall ~> (ReturnedNormally \/ Fatal))

\* A Fsm_Begin and a Fsm_Dispatch that made that many handler calls, the
\* States going round in a cycle A -> B -> A.
C34_Witness ==
    /\ InDispatch /\ ReturnedNormally /\ call.max0 = MaxTransitions
    /\ Len(log) = 1 + 2 * MaxTransitions
    /\ \A k \in 1..Len(log) :
          log[k].sig # EXIT_EVENT => log[k].target = (IF log[k].h = "A" THEN "B" ELSE "A")

\* C35: a Fsm_Dispatch of an application Signal on an object that was
\* constructed and never begun is not stopped by the entry assertions on
\* that account: its Event goes to me->state, which for the first call on
\* the object is the handler given to Fsm_Ctor, and no Init Event was sent.
C35_DispatchBeforeBegin ==
    (ValidDispatch /\ ~begun) =>
        /\ ~(Fatal /\ log = <<>>)
        /\ run.inits = 0
        /\ log = <<>> => (pc = "dispatch_event" /\ state = call.state0)
        /\ (log = <<>> /\ call.first) => run.init_state_handler = call.state0
        /\ Len(log) >= 1 => (log[1].h = call.state0 /\ log[1].sig = call.sig)

C35_Witness ==
    /\ ValidDispatch /\ ~begun /\ call.first /\ call.state0 = "INITIAL"
    /\ call.sig = APP_SIG /\ ReturnedNormally
    /\ Len(log) = 1 /\ log[1].h = "INITIAL" /\ log[1].sig = APP_SIG
    /\ run.inits = 0

\* C36: when the dispatcher sends an Exit Event me->state already points to
\* the target of the transition; the Exit Event goes to the State saved in
\* prev_state, the one that made the transition, and prev_state is set to
\* me->state after the Exit Event, before the Entry Event that follows.
C36_StateDuringExit ==
    /\ BeforeExit =>
          /\ Last.ret = FSM_TRAN_STATUS /\ Last.sig # EXIT_EVENT
          /\ state = Last.target
          /\ prev_state = Last.h
    /\ (Len(log) >= 2 /\ Last.sig = EXIT_EVENT) =>
          /\ Last.h = log[Len(log) - 1].h
          /\ Last.target = NULL => state = log[Len(log) - 1].target
          /\ BeforeEntry => prev_state = state
    /\ BeforeEntry => prev_state = state

C36_Witness ==
    /\ InDispatch /\ pc = "dispatch_entry" /\ Len(log) = 2
    /\ log[1].h = "A" /\ log[1].target = "B"
    /\ log[2].h = "A" /\ log[2].sig = EXIT_EVENT
    /\ state = "B" /\ prev_state = "B"

\* ------------------------------------------------------------------------
\* Properties of the dynamic ring buffer and of the byte swaps
\* ------------------------------------------------------------------------

\* C31: after Ring_Buffer_Dynamic_Ctor(me, element_size_0, n) returned true
\* the Handle of the caller points to the Ring Buffer just initialised; the
\* Write of valid data of that size that follows through the same Handle
\* returns true, and the Read that follows it returns true with that data.
C31_CtorInitialisesHandle ==
    /\ (dyn_call.op = "Ctor" /\ dyn_call.success) =>
          (dyn_handle = dyn_call.allocated /\ Dyn_Live(dyn_handle))
    /\ (dyn_call.op = "Write" /\ dyn_call.chain.stage = "written") =>
          (dyn_call.success /\ ~dyn_call.crashed)
    /\ (dyn_call.op = "Read" /\ dyn_call.chain.stage = "read") =>
          (dyn_call.success /\ ~dyn_call.crashed /\ dyn_call.data = dyn_call.chain.data)

\* The bytes of a 16-bit value exchanged, and those of a 32-bit value in
\* reverse order, whatever the target.
Exchanged16(x) == ((x % 256) * 256) + (x \div 256)
Reversed32(x) ==
    LET b == <<x.hi \div 256, x.hi % 256, x.lo \div 256, x.lo % 256>>
    IN  [hi |-> (256 * b[4]) + b[3], lo |-> (256 * b[2]) + b[1]]

\* C32: on a target of either byte order Swap16_RunTime(x) and
\* SWAP16_COMPILETIME(x) both are x with its two bytes exchanged, and
\* Swap32_RunTime(x) and SWAP32_COMPILETIME(x) both are x with its four
\* bytes in reverse order (0x1234 -> 0x3412, 0x12345678 -> 0x78563412).
C32_SwapsAgree ==
    /\ swap.op = "Swap16" =>
          /\ swap.run_time = swap.compile_time
          /\ swap.compile_time = Exchanged16(swap.val)
          /\ swap.val = 4660 => swap.run_time = 13330
    /\ swap.op = "Swap32" =>
          /\ swap.run_time = swap.compile_time
          /\ swap.compile_time = Reversed32(swap.val)
          /\ swap.val = [hi |-> 4660, lo |-> 22136] =>
                swap.run_time = [hi |-> 30806, lo |-> 13330]

C32_Witness ==
    /\ swap.op = "Swap32" /\ swap.cpu = "CPU_BIG_ENDIAN"
    /\ swap.val = [hi |-> 4660, lo |-> 22136]
    /\ swap.run_time = [hi |-> 30806, lo |-> 13330]
    /\ swap.compile_time = [hi |-> 30806, lo |-> 13330]

\* ------------------------------------------------------------------------
\* Invariants of the pool of static ring buffers
\* ------------------------------------------------------------------------

\* The elements the Handle h has stored: those accepted by Write and not
\* handed back by Read since.
Stored(h) == Len(shadow[h].elements)

\* The copy of one element at offset stays inside buffer[0 .. capacity).
CopyInside(rb, offset) == offset + rb.element_size <= rb.capacity

\* C37: every Ring Buffer of the pool that is in use has head and tail
\* multiples of element_size and below capacity, and capacity at most
\* RING_BUFFER_STATIC_SIZE, so that the element Write or Read copies at head
\* or tail lies inside buffer[0 .. capacity); the index of every valid
\* Handle is below NUMBER_OF_STATIC_RING_BUFFERS.
C37_IndexInvariant ==
    /\ ~rb_call.crashed
    /\ \A k \in PoolIndex :
          RB_Instances_In_Use[k] =>
             /\ RB_Instances[k].element_size > 0
             /\ RB_Instances[k].head % RB_Instances[k].element_size = 0
             /\ RB_Instances[k].tail % RB_Instances[k].element_size = 0
             /\ RB_Instances[k].head < RB_Instances[k].capacity
             /\ RB_Instances[k].tail < RB_Instances[k].capacity
             /\ RB_Instances[k].capacity <= RING_BUFFER_STATIC_SIZE
             /\ CopyInside(RB_Instances[k], RB_Instances[k].head)
             /\ CopyInside(RB_Instances[k], RB_Instances[k].tail)
    /\ \A h \in Objects :
          Is_Valid_Handle(h) => Handle[h] < NUMBER_OF_STATIC_RING_BUFFERS

\* C38: for every valid Handle Is_Empty is true exactly when no element is
\* stored, Is_Full exactly when as many elements are stored as the
\* constructor was asked for, never both, and head == tail exactly when one
\* of the two is true.
C38_EmptyFullConsistent ==
    \A h \in Objects :
        Is_Valid_Handle(h) =>
           /\ Ring_Buffer_Static_Is_Empty(h) <=> (Stored(h) = 0)
           /\ Ring_Buffer_Static_Is_Full(h) <=> (Stored(h) = shadow[h].number_of_elements)
           /\ ~(Ring_Buffer_Static_Is_Empty(h) /\ Ring_Buffer_Static_Is_Full(h))
           /\ (RB_Instances[Handle[h]].head = RB_Instances[Handle[h]].tail) <=>
                 (Ring_Buffer_Static_Is_Empty(h) \/ Ring_Buffer_Static_Is_Full(h))

\* C39: a call of Ctor, Destroy, Clear, Write or Read, whatever it returns,
\* leaves every valid Handle other than its own valid, for the same Ring
\* Buffer, with the same elements stored and the same head, tail,
\* element_size and capacity.
C39_Isolation ==
    [][\A h \in Objects :
          (h # rb_call'.me /\ Is_Valid_Handle(h)) =>
             /\ Handle'[h] = Handle[h]
             /\ RB_Instances_In_Use'[Handle[h]]
             /\ RB_Instances'[Handle[h]] = RB_Instances[Handle[h]]
             /\ shadow'[h] = shadow[h]]_vars

\* ------------------------------------------------------------------------
\* Properties of the static ring buffer used from two contexts
\* ------------------------------------------------------------------------

\* Neither context is inside Write or Read.
Quiescent == producer.pc = "idle" /\ consumer.pc = "idle"

\* C40: with one Write and one Read on the same valid Handle interleaving
\* statement by statement, the Reads that returned true have returned the
\* elements of the Writes that returned true, in their order, none missing
\* and none twice, and between calls is_empty is set only when every
\* element accepted has been read.
C40_SpscFifo ==
    Is_Valid_Handle(SpscHandle) =>
        /\ Len(consumer.received) <= producer.accepted + (IF producer.pc = "idle" THEN 0 ELSE 1)
        /\ \A k \in 1..Len(consumer.received) :
              consumer.received[k] = Element(k, RB_Instances[Handle[SpscHandle]].element_size)
        /\ (Quiescent /\ RB_Instances[Handle[SpscHandle]].is_empty) =>
              Len(consumer.received) = producer.accepted

====
